---- MODULE Spec2Model ----
(***************************************************************************)
(* A model of the retrieval and ranking pipeline of CoAssist1:             *)
(*   core/retrieve.py      filter_spend_current_month, _freshness_weight,  *)
(*                         hybrid_with_freshness                           *)
(*   backend/rag/hybrid.py _normalize, hybrid_merge                        *)
(*   core/indexes.py       build_indexes (transaction nodes)               *)
(*   app.py                the per-turn script                             *)
(*                                                                         *)
(* Time.  An instant is an integer number of ticks since an epoch that is  *)
(* the first instant of calendar month 0 in UTC; a calendar month is       *)
(* TicksPerMonth ticks long.  An ISO-8601 string is a record               *)
(*   [form, wall, off]                                                     *)
(* where form says how the string is written ("z": ends in Z, "offset":    *)
(* carries +hh:mm, "naive": no zone, "bad": not ISO-8601, "empty": "",     *)
(* "absent": None / key missing), wall is the wall-clock reading written   *)
(* in the string and off the zone offset written in it, both in ticks.     *)
(*                                                                         *)
(* Numbers.  Python floats are modelled by exact rationals <<num, den>>    *)
(* with den > 0, kept in lowest terms.                                     *)
(***************************************************************************)
EXTENDS Integers, Sequences, FiniteSets, TLC

VARIABLES
    pc,            \* position of the operation under study
    \* ---- environment and settings ----
    local_tz,      \* the offset of the system's local time zone
    now_utc,       \* datetime.now(timezone.utc)
    alpha,         \* the hybrid weight (ALPHA), a rational
    \* ---- filter_spend_current_month(nodes, now_utc) ----
    nodes,         \* argument: list of NodeWithScore
    out,           \* return value
    \* ---- build_indexes(data_dir) ----
    bundle,        \* what load_banking_data and _load_agreement_text read
    built,         \* return value (or the exception raised)
    \* ---- hybrid_merge(vec_results, lex_results, alpha, k) ----
    vec_results,   \* argument: list of (Chunk, score) from the semantic index
    lex_results,   \* argument: list of (Chunk, score) from the lexical index
    k,             \* argument
    merged,        \* return value
    \* ---- hybrid_with_freshness(built, query, alpha, lam, kN) ----
    vec_nodes,     \* what VectorIndexRetriever.retrieve returned
    bm_nodes,      \* what built.bm25.retrieve returned
    lam,           \* argument: the decay rate, in units of ln 2 per tick
    kN,            \* argument
    fresh,         \* the scores dict, the return value, or the exception raised
    \* ---- app.py: one run of the script on a chat input ----
    q_in,          \* what st.chat_input returned
    SYSTEM,        \* the system prompt composed from the prompt files
    RERANKER,      \* the sidebar's reranker choice
    retrieved,     \* what the retrieval of lines 175-182 returned
    history,       \* st.session_state.history
    turn,          \* the script's variables at the end of the run
    \* ---- rerank_with_llm(query, candidates, batch) ----
    candidates,    \* argument: list of Chunk
    responses,     \* what llm.chat does for each batch, in order
    judged,        \* return value (or the exception raised)
    \* ---- the agreement text and what the two builders make of it ----
    pdf_text,      \* the text extracted from agreement.pdf
    windows,       \* the texts of the agreement chunks or nodes emitted
    \* ---- build_corpus(data_dir) ----
    data_dir,      \* the JSON files and agreement.pdf of the data directory
    docs,          \* return value (or the exception raised)
    \* ---- app.py: the cached build shared by the sessions of the server ----
    files,         \* the data directory: each file's mtime and size
    cache,         \* the entries of st.cache_resource for _build, by argument
    locks,         \* the arguments whose value is being computed
    Settings,      \* llama_index Settings.llm / embed_model: the build that set them
    sessions,      \* each session's script run: position, STYLE_PROFILE, built
    answered,       \* what the latest turn was answered from
    \* ---- numbered_ctx (app.py) and make_user (composer.py) ----
    ctx_nodes, \* the nodes or chunks handed to a context assembler
    ctx_rows, \* the numbered entries of the prompt text
    \* ---- rerank_with_sbert(query, candidates) called from several threads ----
    _ce, \* the module-level cross-encoder of sbert_reranker.py, 0 for None
    constructed, \* how many CrossEncoder objects have been constructed
    threads, \* each thread's position in rerank_with_sbert and its local ce
    \* ---- FAISSStore over an EmbeddingService ----
    api_up, \* whether the embeddings API answers at this moment
    use_local, \* USE_LOCAL_EMBEDS as the EmbeddingService read it
    store, \* the FAISSStore built, or the exception its constructor raised
    searched, \* the latest search: the query vector and the result
    \* ---- load_config ----
    _DEFAULTS, \* the module-level defaults of core/config.py
    environ, \* os.environ: the override variables that are set
    cfg_file, \* config/app.yaml: its parsed content, or missing
    cfg, \* what the last call of load_config returned
    loads, \* the number of load_config calls made
    \* ---- the while loop of chunk_text ----
    ct_text, \* chunk_text: the text, normalised once the call has begun
    ct_size, \* chunk_text: chunk_size
    ct_overlap, \* chunk_text: overlap
    ct_start, \* chunk_text: start
    ct_chunks \* chunk_text: chunks

envVars == <<local_tz, now_utc, alpha>>

filterVars == <<nodes, out>>

buildVars == <<bundle, built>>

mergeVars == <<vec_results, lex_results, k, merged>>

freshVars == <<vec_nodes, bm_nodes, lam, kN, fresh>>

turnVars == <<q_in, SYSTEM, RERANKER, retrieved, history, turn>>

rerankVars == <<candidates, responses, judged>>

agreementVars == <<pdf_text, windows>>

corpusVars == <<data_dir, docs>>

cacheVars == <<files, cache, locks, Settings, sessions, answered>>

contextVars == <<ctx_nodes, ctx_rows>>

sbertVars == <<_ce, constructed, threads>>

faissVars == <<api_up, use_local, store, searched>>

configVars == <<_DEFAULTS, environ, cfg_file, cfg, loads>>

chunkVars == <<ct_text, ct_size, ct_overlap, ct_start, ct_chunks>>

vars == <<pc, envVars, filterVars, buildVars, mergeVars, freshVars, turnVars,
          rerankVars, agreementVars, corpusVars, cacheVars, contextVars, sbertVars, faissVars, configVars, chunkVars>>

\* The variables of the operations other than one.
exceptFilter == <<buildVars, mergeVars, freshVars, turnVars, rerankVars,
    agreementVars, corpusVars, cacheVars, contextVars, sbertVars, faissVars, configVars, chunkVars>>
exceptBuild == <<filterVars, mergeVars, freshVars, turnVars, rerankVars,
    agreementVars, corpusVars, cacheVars, contextVars, sbertVars, faissVars, configVars, chunkVars>>
exceptMerge == <<filterVars, buildVars, freshVars, turnVars, rerankVars,
    agreementVars, corpusVars, cacheVars, contextVars, sbertVars, faissVars, configVars, chunkVars>>
exceptFresh == <<filterVars, buildVars, mergeVars, turnVars, rerankVars,
    agreementVars, corpusVars, cacheVars, contextVars, sbertVars, faissVars, configVars, chunkVars>>
exceptTurn == <<filterVars, buildVars, mergeVars, freshVars, rerankVars,
    agreementVars, corpusVars, cacheVars, contextVars, sbertVars, faissVars, configVars, chunkVars>>
exceptAgreement == <<filterVars, buildVars, mergeVars, freshVars, turnVars, rerankVars,
    corpusVars, cacheVars, contextVars, sbertVars, faissVars, configVars, chunkVars>>
exceptCorpus == <<filterVars, buildVars, mergeVars, freshVars, turnVars, rerankVars,
    agreementVars, cacheVars, contextVars, sbertVars, faissVars, configVars, chunkVars>>
exceptRerank == <<filterVars, buildVars, mergeVars, freshVars, turnVars,
    agreementVars, corpusVars, cacheVars, contextVars, sbertVars, faissVars, configVars, chunkVars>>
exceptCache == <<filterVars, buildVars, mergeVars, freshVars, turnVars, rerankVars,
    agreementVars, corpusVars, contextVars, sbertVars, faissVars, configVars, chunkVars>>
exceptContext == <<filterVars, buildVars, mergeVars, freshVars, turnVars, rerankVars, agreementVars, corpusVars, cacheVars, sbertVars, faissVars, configVars, chunkVars>>
exceptSbert == <<filterVars, buildVars, mergeVars, freshVars, turnVars, rerankVars, agreementVars, corpusVars, cacheVars, contextVars, faissVars, configVars, chunkVars>>
exceptFaiss == <<filterVars, buildVars, mergeVars, freshVars, turnVars, rerankVars, agreementVars, corpusVars, cacheVars, contextVars, sbertVars, configVars, chunkVars>>
exceptConfig == <<filterVars, buildVars, mergeVars, freshVars, turnVars, rerankVars, agreementVars, corpusVars, cacheVars, contextVars, sbertVars, faissVars, chunkVars>>
exceptChunk == <<filterVars, buildVars, mergeVars, freshVars, turnVars, rerankVars, agreementVars, corpusVars, cacheVars, contextVars, sbertVars, faissVars, configVars>>

-----------------------------------------------------------------------------
(* The variables of an operation that is not the one under study keep these *)
(* values.                                                                  *)

NotBuilt == [raised |-> FALSE, nodes |-> <<>>]

NotMerged == [raised |-> FALSE, scores |-> <<>>, weights |-> <<>>, out |-> <<>>]

FilterIdle == nodes = <<>> /\ out = <<>>

BuildIdle == bundle = <<>> /\ built = NotBuilt

MergeIdle == vec_results = <<>> /\ lex_results = <<>> /\ k = 0 /\ merged = <<>>

FreshIdle == vec_nodes = <<>> /\ bm_nodes = <<>> /\ lam = 0 /\ kN = 0 /\ fresh = NotMerged

NoTurn ==
    [ is_spend_query |-> FALSE, default_timeframe_hint |-> <<>>, q |-> <<>>,
      candidates |-> <<>>, nodes |-> <<>>,
      messages |-> <<>>, final_answer |-> <<>>, raised |-> FALSE ]

TurnIdle ==
    /\ q_in = <<>> /\ SYSTEM = <<>> /\ RERANKER = "none"
    /\ retrieved = <<>> /\ history = <<>> /\ turn = NoTurn

NotReranked == [raised |-> FALSE, out |-> <<>>]

RerankIdle == candidates = <<>> /\ responses = <<>> /\ judged = NotReranked

AgreementIdle == pdf_text = <<>> /\ windows = <<>>

NoCorpus == [raised |-> FALSE, docs |-> <<>>]

CorpusIdle == data_dir = <<>> /\ docs = NoCorpus

CacheIdle ==
    /\ files = <<>> /\ cache = <<>> /\ locks = {}
    /\ Settings = <<>> /\ sessions = <<>> /\ answered = <<>>

ContextIdle == ctx_nodes = <<>> /\ ctx_rows = <<>>

SbertIdle == _ce = 0 /\ constructed = 0 /\ threads = <<>>

FaissIdle == api_up = FALSE /\ use_local = FALSE /\ store = <<>> /\ searched = <<>>

ConfigIdle == _DEFAULTS = <<>> /\ environ = <<>> /\ cfg_file = <<>> /\ cfg = <<>> /\ loads = 0

ChunkIdle == ct_text = <<>> /\ ct_size = 0 /\ ct_overlap = 0 /\ ct_start = 0 /\ ct_chunks = <<>>

Idle(op) ==
    /\ (op # "filter" => FilterIdle)
    /\ (op # "build" => BuildIdle)
    /\ (op # "merge" => MergeIdle)
    /\ (op # "fresh" => FreshIdle)
    /\ (op # "turn" => TurnIdle)
    /\ (op # "rerank" => RerankIdle)
    /\ (op # "agreement" => AgreementIdle)
    /\ (op # "corpus" => CorpusIdle)
    /\ (op # "cache" => CacheIdle)
    /\ (op # "context" => ContextIdle)
    /\ (op # "sbert" => SbertIdle)
    /\ (op # "faiss" => FaissIdle)
    /\ (op # "config" => ConfigIdle)
    /\ (op # "chunk" => ChunkIdle)

-----------------------------------------------------------------------------
(* Bounds of the model *)

TicksPerMonth == 4
MaxNodes == 2

-----------------------------------------------------------------------------
(* Generic helpers *)

Range(s) == {s[i] : i \in DOMAIN s}

SeqsUpTo(S, n) == UNION {[1..m -> S] : m \in 0..n}

Abs(x) == IF x < 0 THEN -x ELSE x

Max2(a, b) == IF a >= b THEN a ELSE b

Min2(a, b) == IF a <= b THEN a ELSE b

-----------------------------------------------------------------------------
(* ISO-8601 strings and datetimes *)

None == [form |-> "absent", wall |-> 0, off |-> 0]
EmptyStr == [form |-> "empty", wall |-> 0, off |-> 0]
BadStr == [form |-> "bad", wall |-> 0, off |-> 0]
IsoZ(w) == [form |-> "z", wall |-> w, off |-> 0]
IsoOff(w, o) == [form |-> "offset", wall |-> w, off |-> o]
IsoNaive(w) == [form |-> "naive", wall |-> w, off |-> 0]

\* Python truthiness of an Optional[str]: None and "" are falsy.
Truthy(s) == s.form \notin {"absent", "empty"}

\* datetime.fromisoformat(s.replace("Z", "+00:00")): raises on a string that is
\* not ISO-8601, returns an aware datetime when the string carries a zone and a
\* naive one otherwise.
fromisoformat(s) ==
    CASE s.form = "z"      -> [ok |-> TRUE, aware |-> TRUE, wall |-> s.wall, off |-> 0]
      [] s.form = "offset" -> [ok |-> TRUE, aware |-> TRUE, wall |-> s.wall, off |-> s.off]
      [] s.form = "naive"  -> [ok |-> TRUE, aware |-> FALSE, wall |-> s.wall, off |-> 0]
      [] OTHER             -> [ok |-> FALSE, aware |-> FALSE, wall |-> 0, off |-> 0]

\* dt.astimezone(timezone.utc): the instant of an aware datetime; a naive
\* datetime is read in the system's local zone.
astimezone_utc(dt, tz) ==
    IF dt.aware THEN dt.wall - dt.off ELSE dt.wall - tz

\* now_utc.replace(day=1, hour=0, minute=0, second=0, microsecond=0)
replace_day1(t) == (t \div TicksPerMonth) * TicksPerMonth

-----------------------------------------------------------------------------
(* core/retrieve.py: filter_spend_current_month *)

\* metadata["spend_candidate"] is True, False, or the key is missing.
True == "True"
False == "False"
Missing == "missing"

\* md.get("spend_candidate", False), read as a condition.
get_spend_candidate(md) == md.spend_candidate = True

\* filter_keeps without the spend_candidate test.
filter_keeps_no_flag(n, now, tz) ==
    LET md == n.node
        month_start == replace_day1(now)
    IN  IF md.kind # "transaction" THEN TRUE
        ELSE IF ~Truthy(md.dt_iso) THEN FALSE
        ELSE LET p == fromisoformat(md.dt_iso)
             IN  IF ~p.ok THEN FALSE
                 ELSE LET dt == astimezone_utc(p, tz)
                      IN  month_start <= dt /\ dt <= now

\* filter_keeps where a candidate whose date does not parse is kept.
filter_keeps_bad_date(n, now, tz) ==
    LET md == n.node
        month_start == replace_day1(now)
    IN  IF md.kind # "transaction" THEN TRUE
        ELSE IF ~get_spend_candidate(md) THEN FALSE
        ELSE IF ~Truthy(md.dt_iso) THEN FALSE
        ELSE LET p == fromisoformat(md.dt_iso)
             IN  IF ~p.ok THEN TRUE
                 ELSE LET dt == astimezone_utc(p, tz)
                      IN  month_start <= dt /\ dt <= now

\* The body of the for loop for one node n: TRUE when n is appended to out.
filter_keeps(n, now, tz) ==
    LET md == n.node
        month_start == replace_day1(now)
    IN  IF md.kind # "transaction" THEN TRUE
        ELSE IF ~get_spend_candidate(md) THEN FALSE
        ELSE IF ~Truthy(md.dt_iso) THEN FALSE
        ELSE LET p == fromisoformat(md.dt_iso)
             IN  IF ~p.ok THEN FALSE
                 ELSE LET dt == astimezone_utc(p, tz)
                      IN  month_start <= dt /\ dt <= now

RECURSIVE filter_loop(_, _, _, _, _)
filter_loop(ns, i, acc, now, tz) ==
    IF i > Len(ns) THEN acc
    ELSE filter_loop(ns, i + 1,
                     IF filter_keeps(ns[i], now, tz) THEN Append(acc, ns[i]) ELSE acc,
                     now, tz)

filter_spend_current_month(ns, now, tz) ==
    IF ns = <<>> THEN ns ELSE filter_loop(ns, 1, <<>>, now, tz)

-----------------------------------------------------------------------------
(* core/indexes.py: build_indexes *)

\* A JSON string value: its text up to case and surrounding blanks (base), and
\* how it is written.  NoStr is None / key missing.
NoStr == [base |-> "", style |-> "none"]
Str(base, style) == [base |-> base, style |-> style]

\* Python truthiness of an Optional[str] type field.
StrTruthy(s) == s.style # "none" /\ s.base # ""

\* s.strip().lower(): blanks around the text and its case are dropped.
strip_lower(s) == s.base

EXCLUDE_TYPES == {"payment", "refund", "credit", "interest", "fee reversal"}

\* r = t.model_dump() if hasattr(t, "model_dump") else t.  A typed Transaction
\* holds the declared fields only (pydantic ignores undeclared keys when the
\* record is loaded): authDateTime and debitCreditIndicator are not declared,
\* so model_dump() has neither.  A plain dict is used as it is.
model_dump(t, typed) ==
    IF typed THEN [t EXCEPT !.authDateTime = None, !.debitCreditIndicator = Missing]
    ELSE t

\* _first(*vals): the first truthy value, else None.
RECURSIVE _first(_)
_first(vals) ==
    IF vals = <<>> THEN None
    ELSE IF Truthy(Head(vals)) THEN Head(vals)
    ELSE _first(Tail(vals))

\* A year-month string "%Y-%m" (the index of the calendar month), or None.
NoYm == [has |-> FALSE, m |-> 0]
YmStr(m) == [has |-> TRUE, m |-> m]

\* _to_utc(dt_iso)
_to_utc(dt_iso, tz) ==
    IF ~Truthy(dt_iso) THEN [ok |-> FALSE, t |-> 0]
    ELSE LET p == fromisoformat(dt_iso)
         IN  IF p.ok THEN [ok |-> TRUE, t |-> astimezone_utc(p, tz)]
             ELSE [ok |-> FALSE, t |-> 0]

\* _ym(dt_iso): dt.strftime("%Y-%m") of the UTC datetime.
_ym(dt_iso, tz) ==
    LET dt == _to_utc(dt_iso, tz)
    IN  IF dt.ok THEN YmStr(dt.t \div TicksPerMonth) ELSE NoYm

\* canonical_dt_iso with authDateTime tried first.
canonical_dt_iso_auth(r) ==
    _first(<<r.authDateTime, r.transactionDateTime, r.postingDateTime>>)

\* canonical_dt_iso = _first(r.get("transactionDateTime"), r.get("postingDateTime"))
canonical_dt_iso(r) == _first(<<r.transactionDateTime, r.postingDateTime>>)

\* dtype = (r.get("displayTransactionType") or r.get("transactionType") or "").strip().lower()
dtype_of(r) ==
    IF StrTruthy(r.displayTransactionType) THEN strip_lower(r.displayTransactionType)
    ELSE IF StrTruthy(r.transactionType) THEN strip_lower(r.transactionType)
    ELSE ""

\* is_debit = str(r.get("debitCreditIndicator", "1")) == "1"
is_debit_of(r) == r.debitCreditIndicator \in {Missing, "1"}

\* The metadata of the TextNode built for one element t of b.transactions.
transaction_node(t, typed, tz) ==
    LET r == model_dump(t, typed)
        dt_iso == canonical_dt_iso(r)
        dtype == dtype_of(r)
        is_debit == is_debit_of(r)
        is_spend_candidate == is_debit /\ dtype \notin EXCLUDE_TYPES
    IN  [kind |-> "transaction", dt_iso |-> dt_iso, ym |-> _ym(dt_iso, tz),
         type |-> dtype, debit |-> IF is_debit THEN True ELSE False,
         spend_candidate |-> IF is_spend_candidate THEN True ELSE False]

\* The metadata of the nodes of the other record kinds.
account_node == 
    [kind |-> "account", dt_iso |-> None, ym |-> NoYm, type |-> "",
     debit |-> Missing, spend_candidate |-> Missing]

statement_node(r, tz) ==
    LET dt_iso == _first(<<r.closingDateTime, r.openingDateTime, r.dueDate>>)
    IN  [kind |-> "statement", dt_iso |-> dt_iso, ym |-> _ym(dt_iso, tz), type |-> "",
         debit |-> Missing, spend_candidate |-> Missing]

payment_node(r, tz) ==
    LET dt_iso == _first(<<r.paymentDateTime, r.scheduledPaymentDateTime>>)
    IN  [kind |-> "payment", dt_iso |-> dt_iso, ym |-> _ym(dt_iso, tz), type |-> "",
         debit |-> Missing, spend_candidate |-> Missing]

agreement_node ==
    [kind |-> "agreement", dt_iso |-> None, ym |-> NoYm, type |-> "",
     debit |-> Missing, spend_candidate |-> Missing]

\* nodes as build_indexes appends them: accounts, statements, transactions,
\* payments, then the agreement when its text is not empty.
build_nodes(bd, tz) ==
    [i \in 1..bd.account_summary |-> account_node]
    \o [i \in DOMAIN bd.statements |-> statement_node(bd.statements[i], tz)]
    \o [i \in DOMAIN bd.transactions |-> transaction_node(bd.transactions[i], bd.typed, tz)]
    \o [i \in DOMAIN bd.payments |-> payment_node(bd.payments[i], tz)]
    \o (IF bd.agr_text THEN <<agreement_node>> ELSE <<>>)

\* build_indexes: raises AssertionError when no node was created, else returns
\* Built(nodes, vector_index, bm25).
build_indexes(bd, tz) ==
    LET ns == build_nodes(bd, tz)
    IN  IF ns = <<>> THEN [raised |-> TRUE, nodes |-> <<>>]
        ELSE [raised |-> FALSE, nodes |-> ns]

-----------------------------------------------------------------------------
(* Inputs of filter_spend_current_month *)

TzSamples == {0, 1}

NowSamples == {TicksPerMonth, TicksPerMonth + 2, 2 * TicksPerMonth - 1}

DtSamples ==
    { None, EmptyStr, BadStr,
      IsoZ(TicksPerMonth - 1), IsoZ(TicksPerMonth), IsoZ(TicksPerMonth + 1),
      IsoZ(2 * TicksPerMonth - 1),
      IsoOff(TicksPerMonth, 1), IsoNaive(TicksPerMonth) }

TxnMeta ==
    [kind : {"transaction"}, spend_candidate : {True, False, Missing}, dt_iso : DtSamples]

OtherMeta ==
    { [kind |-> "agreement", spend_candidate |-> Missing, dt_iso |-> None],
      [kind |-> "statement", spend_candidate |-> Missing, dt_iso |-> IsoZ(TicksPerMonth - 1)] }

\* Candidates come out of retrieval ranked: the i-th carries a score that falls
\* with i, which also tells two candidates of equal metadata apart.
Ranked(ms) == [i \in DOMAIN ms |-> [node |-> ms[i], score |-> Len(ms) + 1 - i]]

InitFilter ==
    /\ pc = "filter_call"
    /\ Idle("filter")
    /\ local_tz \in TzSamples
    /\ now_utc \in NowSamples
    /\ alpha = <<0, 1>>
    /\ nodes \in {Ranked(ms) : ms \in SeqsUpTo(TxnMeta \cup OtherMeta, MaxNodes)}
    /\ out = <<>>

FilterSpend ==
    /\ pc = "filter_call"
    /\ out' = filter_spend_current_month(nodes, now_utc, local_tz)
    /\ pc' = "filter_done"
    /\ UNCHANGED <<envVars, nodes, exceptFilter>>

NextFilter == FilterSpend

SpecFilter == InitFilter /\ [][NextFilter]_vars

-----------------------------------------------------------------------------
(* Claims about filter_spend_current_month *)

IsInSeq(x, s) == \E i \in DOMAIN s : s[i] = x

\* C1: a transaction chunk whose meta.spend_candidate is false or missing is
\* never present in the output of filter_spend_current_month, whatever its
\* dt_iso is and whatever now is.
C1_NonSpendNeverKept ==
    pc = "filter_done" =>
        \A i \in DOMAIN nodes :
            (nodes[i].node.kind = "transaction" /\ nodes[i].node.spend_candidate # True)
                => ~IsInSeq(nodes[i], out)

\* A non-candidate transaction dated inside the window was offered, next to a
\* candidate that was kept.
C1_Witness ==
    /\ pc = "filter_done"
    /\ out # <<>>
    /\ \E i \in DOMAIN nodes :
        /\ nodes[i].node.kind = "transaction"
        /\ nodes[i].node.spend_candidate \in {False, Missing}
        /\ nodes[i].node.dt_iso = IsoZ(TicksPerMonth)
    /\ \E i \in DOMAIN out : out[i].node.kind = "transaction"

\* The first instant of the calendar month (UTC) that holds instant t.
FirstInstantOfMonth(t) ==
    CHOOSE m \in 0..t : m % TicksPerMonth = 0 /\ m <= t /\ t < m + TicksPerMonth

\* The instant an ISO-8601 string denotes; a string without a zone is read in
\* the system's local zone.
InstantOf(s, tz) ==
    CASE s.form = "z" -> s.wall
      [] s.form = "offset" -> s.wall - s.off
      [] s.form = "naive" -> s.wall - tz

ParsesAsIso(s) == s.form \in {"z", "offset", "naive"}

C2_Keep(n) ==
    \/ n.node.kind # "transaction"
    \/ /\ n.node.spend_candidate = True
       /\ ParsesAsIso(n.node.dt_iso)
       /\ FirstInstantOfMonth(now_utc) <= InstantOf(n.node.dt_iso, local_tz)
       /\ InstantOf(n.node.dt_iso, local_tz) <= now_utc

\* C2: the output is exactly the subsequence of nodes (order kept, scores
\* untouched) made of every non-transaction node and every spend-candidate
\* transaction whose dt_iso parses and lies between the first instant of now's
\* calendar month (UTC) and now; a candidate whose dt_iso is missing or does
\* not parse is dropped.
C2_ExactSubsequence ==
    pc = "filter_done" => out = SelectSeq(nodes, C2_Keep)

\* Two nodes are kept in their order while a candidate with an unparseable
\* date and one dated before the month are dropped.
C2_Witness ==
    /\ pc = "filter_done"
    /\ Len(nodes) >= 2
    /\ \E i \in DOMAIN nodes :
        /\ nodes[i].node.kind = "transaction"
        /\ nodes[i].node.spend_candidate = True
        /\ nodes[i].node.dt_iso \in {BadStr, None, IsoOff(TicksPerMonth, 1)}
        /\ ~IsInSeq(nodes[i], out)
    /\ \E i \in DOMAIN nodes :
        /\ nodes[i].node.kind = "transaction"
        /\ IsInSeq(nodes[i], out)

-----------------------------------------------------------------------------
(* Inputs of build_indexes *)

MaxTxns == 1

\* (transactionDateTime, postingDateTime, authDateTime) of a record.
DateTriples ==
    { <<None, None, None>>,
      <<None, None, IsoNaive(TicksPerMonth + 1)>>,
      <<None, IsoNaive(TicksPerMonth + 2), IsoNaive(TicksPerMonth + 1)>>,
      <<IsoZ(TicksPerMonth + 1), IsoNaive(TicksPerMonth + 2), IsoNaive(TicksPerMonth - 1)>>,
      <<EmptyStr, IsoZ(TicksPerMonth + 2), IsoZ(TicksPerMonth + 1)>>,
      <<BadStr, IsoZ(TicksPerMonth + 2), None>>,
      <<IsoOff(TicksPerMonth, 1), None, IsoZ(TicksPerMonth)>> }

\* (displayTransactionType, transactionType) of a record.
TypePairs ==
    { <<NoStr, NoStr>>,
      <<Str("payment", "padded"), Str("purchase", "plain")>>,
      <<NoStr, Str("refund", "upper")>>,
      <<Str("", "plain"), Str("fee reversal", "plain")>>,
      <<NoStr, Str("purchase", "upper")>> }

\* debitCreditIndicator: key missing, "1" (debit), "-1" (credit).
Indicators == {Missing, "1", "-1"}

TxnRecords ==
    { [transactionDateTime |-> d[1], postingDateTime |-> d[2], authDateTime |-> d[3],
       displayTransactionType |-> ty[1], transactionType |-> ty[2],
       debitCreditIndicator |-> ind] :
        d \in DateTriples, ty \in TypePairs, ind \in Indicators }

StatementSample ==
    [closingDateTime |-> None, openingDateTime |-> IsoZ(TicksPerMonth - 1),
     dueDate |-> IsoZ(TicksPerMonth + 1)]

PaymentSample ==
    [paymentDateTime |-> IsoZ(TicksPerMonth + 1), scheduledPaymentDateTime |-> None]

\* The rest of the data directory: nothing, an agreement only, one of each.
OtherSamples ==
    { [account_summary |-> 0, statements |-> <<>>, payments |-> <<>>, agr_text |-> FALSE],
      [account_summary |-> 0, statements |-> <<>>, payments |-> <<>>, agr_text |-> TRUE],
      [account_summary |-> 1, statements |-> <<StatementSample>>,
       payments |-> <<PaymentSample>>, agr_text |-> TRUE] }

Bundles ==
    { [account_summary |-> o.account_summary, statements |-> o.statements,
       transactions |-> ts, payments |-> o.payments, agr_text |-> o.agr_text,
       typed |-> ty] :
        o \in OtherSamples, ts \in SeqsUpTo(TxnRecords, MaxTxns), ty \in BOOLEAN }

InitBuild ==
    /\ pc = "build_call"
    /\ local_tz \in TzSamples
    /\ now_utc = 0
    /\ alpha = <<0, 1>>
    /\ bundle \in Bundles
    /\ built = NotBuilt
    /\ Idle("build")

BuildIndexes ==
    /\ pc = "build_call"
    /\ built' = build_indexes(bundle, local_tz)
    /\ pc' = "build_done"
    /\ UNCHANGED <<envVars, bundle, exceptBuild>>

NextBuild == BuildIndexes

SpecBuild == InitBuild /\ [][NextBuild]_vars

-----------------------------------------------------------------------------
(* Claims about the transaction nodes of build_indexes *)

\* The node built for the i-th transaction: it follows the account and
\* statement nodes.
TxnNode(i) == built.nodes[bundle.account_summary + Len(bundle.statements) + i]

Present(s) == s.form \notin {"absent", "empty"}

\* The date the claim resolves: transactionDateTime when present, otherwise
\* postingDateTime (None when neither is).
C3_Resolved(x) ==
    IF Present(x.transactionDateTime) THEN x.transactionDateTime
    ELSE IF Present(x.postingDateTime) THEN x.postingDateTime
    ELSE None

\* The year-month of the instant a date string denotes, None when it denotes
\* none.
C3_YearMonth(s, tz) ==
    IF ~ParsesAsIso(s) THEN NoYm
    ELSE YmStr(FirstInstantOfMonth(InstantOf(s, tz)) \div TicksPerMonth)

\* C3: the dt_iso of a transaction chunk is transactionDateTime when present,
\* otherwise postingDateTime; authDateTime is never the resolved value when it
\* differs from it, even when it is the only date set; ym is the year-month of
\* the same resolved date.
C3_CanonicalDate ==
    pc = "build_done" =>
        \A i \in DOMAIN bundle.transactions :
            LET x == bundle.transactions[i]
                md == TxnNode(i)
            IN  /\ md.kind = "transaction"
                /\ md.dt_iso = C3_Resolved(x)
                /\ (x.authDateTime # C3_Resolved(x) => md.dt_iso # x.authDateTime)
                /\ md.ym = C3_YearMonth(C3_Resolved(x), local_tz)

\* Scenario 2: no transactionDateTime, postingDateTime two ticks into month 1
\* and an authDateTime one tick earlier, seen by the code (records kept as
\* dicts): dt_iso is the posting date and ym is month 1.
C3_Witness ==
    /\ pc = "build_done"
    /\ ~bundle.typed
    /\ \E i \in DOMAIN bundle.transactions :
        /\ bundle.transactions[i].transactionDateTime = None
        /\ bundle.transactions[i].postingDateTime = IsoNaive(TicksPerMonth + 2)
        /\ bundle.transactions[i].authDateTime = IsoNaive(TicksPerMonth + 1)
        /\ TxnNode(i).dt_iso = IsoNaive(TicksPerMonth + 2)
        /\ TxnNode(i).ym = YmStr(1)

\* The type the claim normalizes: the display type, else the transaction
\* type, without case and surrounding blanks.
C4_Type(x) ==
    IF x.displayTransactionType.style # "none" /\ x.displayTransactionType.base # ""
    THEN x.displayTransactionType.base
    ELSE x.transactionType.base

\* A record is a debit unless its debitCreditIndicator says otherwise.
C4_IsDebit(x) == x.debitCreditIndicator \in {Missing, "1"}

\* C4: a transaction chunk gets spend_candidate = true only if the transaction
\* is a debit and its normalized type is not payment, refund, credit, interest
\* or fee reversal; every transaction of such a type and every non-debit
\* transaction is built with spend_candidate = false.
C4_SpendOnlyDebitNonExcluded ==
    pc = "build_done" =>
        \A i \in DOMAIN bundle.transactions :
            TxnNode(i).spend_candidate = True =>
                /\ C4_IsDebit(bundle.transactions[i])
                /\ C4_Type(bundle.transactions[i]) \notin
                       {"payment", "refund", "credit", "interest", "fee reversal"}

-----------------------------------------------------------------------------
(* Exact rationals <<num, den>>, den > 0, in lowest terms *)

RECURSIVE GCD(_, _)
GCD(a, b) == IF b = 0 THEN a ELSE GCD(b, a % b)

Rat(n, d) == LET g == GCD(Abs(n), d) IN <<n \div g, d \div g>>

Zero == <<0, 1>>
One == <<1, 1>>

RAdd(x, y) == Rat(x[1] * y[2] + y[1] * x[2], x[2] * y[2])
RSub(x, y) == Rat(x[1] * y[2] - y[1] * x[2], x[2] * y[2])
RMul(x, y) == Rat(x[1] * y[1], x[2] * y[2])
RLe(x, y) == x[1] * y[2] <= y[1] * x[2]
RLt(x, y) == x[1] * y[2] < y[1] * x[2]

-----------------------------------------------------------------------------
(* backend/rag/hybrid.py: _normalize, hybrid_merge *)

\* A raw score is an integer (a float on a fixed grid); a result is a pair
\* <<chunk, score>> and a chunk is named by its identity id(c).

SeqMin(q) == CHOOSE x \in Range(q) : \A y \in Range(q) : x <= y
SeqMax(q) == CHOOSE x \in Range(q) : \A y \in Range(q) : x >= y

\* math.isclose(a, b): abs(a - b) <= rel_tol * max(abs(a), abs(b)) with the
\* default rel_tol = 1e-09 and abs_tol = 0.
RelTolInv == 1000000000
isclose(a, b) == Abs(a - b) <= Max2(Abs(a), Abs(b)) \div RelTolInv

_normalize(scores) ==
    IF scores = <<>> THEN scores
    ELSE LET lo == SeqMin(scores)
             hi == SeqMax(scores)
         IN  IF isclose(hi, lo) THEN [i \in DOMAIN scores |-> Zero]
             ELSE [i \in DOMAIN scores |-> Rat(scores[i] - lo, hi - lo)]

\* An insertion-ordered dict is a sequence of <<key, value>> with distinct keys.
HasKey(d, key) == \E i \in DOMAIN d : d[i][1] = key

\* A dict update that never finds the key: every result gets an entry of its own.
dict_add_append(d, key, inc) == Append(d, <<key, RAdd(Zero, inc)>>)

\* combined[key] = combined.get(key, 0.0) + inc
dict_add(d, key, inc) ==
    IF HasKey(d, key)
    THEN [i \in DOMAIN d |-> IF d[i][1] = key THEN <<key, RAdd(d[i][2], inc)>> ELSE d[i]]
    ELSE Append(d, <<key, RAdd(Zero, inc)>>)

\* for i, (c, _) in enumerate(results): combined[id(c)] += weight * n_scores[i]
RECURSIVE merge_loop(_, _, _, _, _)
merge_loop(results, n_scores, weight, i, combined) ==
    IF i > Len(results) THEN combined
    ELSE merge_loop(results, n_scores, weight, i + 1,
                    dict_add(combined, results[i][1], RMul(weight, n_scores[i])))

\* The place of x in a list sorted by falling value when equal values keep
\* their order: after every item whose value is not lower.
insert_desc(sorted, x) ==
    LET p == Cardinality({i \in DOMAIN sorted : RLe(x[2], sorted[i][2])})
    IN  SubSeq(sorted, 1, p) \o <<x>> \o SubSeq(sorted, p + 1, Len(sorted))

\* sorted(items, key=value) without reverse=True, equal values in their order.
RECURSIVE sorted_asc(_)
sorted_asc(items) ==
    IF items = <<>> THEN <<>>
    ELSE LET s == sorted_asc(SubSeq(items, 1, Len(items) - 1))
             x == items[Len(items)]
             p == Cardinality({i \in DOMAIN s : RLe(s[i][2], x[2])})
         IN  SubSeq(s, 1, p) \o <<x>> \o SubSeq(s, p + 1, Len(s))

\* sorted(items, key=lambda kv: kv[1], reverse=True): a stable sort.
RECURSIVE sorted_desc(_)
sorted_desc(items) ==
    IF items = <<>> THEN <<>>
    ELSE insert_desc(sorted_desc(SubSeq(items, 1, Len(items) - 1)), items[Len(items)])

\* items[:n] for n >= 0
take(items, n) == SubSeq(items, 1, Min2(n, Len(items)))

hybrid_merge(vec, lex, a, kk) ==
    LET v_scores == _normalize([i \in DOMAIN vec |-> vec[i][2]])
        l_scores == _normalize([i \in DOMAIN lex |-> lex[i][2]])
        combined1 == merge_loop(vec, v_scores, a, 1, <<>>)
        combined == merge_loop(lex, l_scores, RSub(One, a), 1, combined1)
    IN  take(sorted_desc(combined), kk)

-----------------------------------------------------------------------------
(* Inputs of hybrid_merge *)

MaxVec == 3
MaxLex == 2
MaxK == 3
AlphaDen == 2

\* The chunks of the corpus; one more than the semantic index can return.
Chunks == 1..(MaxVec + 1)

VecScores == {-1, 1, 2}
LexScores == {0, 3}

Falling(q) == \A i, j \in DOMAIN q : i < j => q[i][2] >= q[j][2]

Injective(q) == \A i, j \in DOMAIN q : i # j => q[i][1] # q[j][1]

\* What FAISSStore.search returns: distinct chunks by falling similarity.
\* The chunks are named by their rank in it.
VecLists ==
    {q \in SeqsUpTo(Chunks \X VecScores, MaxVec) :
        Falling(q) /\ \A i \in DOMAIN q : q[i][1] = i}

\* What BM25Store.search returns: distinct chunks by falling BM25 score.
LexLists ==
    {q \in SeqsUpTo(Chunks \X LexScores, MaxLex) : Falling(q) /\ Injective(q)}

Alphas == {Rat(a, AlphaDen) : a \in 0..AlphaDen}

InitMerge ==
    /\ pc = "merge_call"
    /\ local_tz = 0
    /\ now_utc = 0
    /\ vec_results \in VecLists
    /\ lex_results \in LexLists
    /\ alpha \in Alphas
    /\ k \in 0..MaxK
    /\ merged = <<>>
    /\ Idle("merge")

HybridMerge ==
    /\ pc = "merge_call"
    /\ merged' = hybrid_merge(vec_results, lex_results, alpha, k)
    /\ pc' = "merge_done"
    /\ UNCHANGED <<envVars, vec_results, lex_results, k, exceptMerge>>

NextMerge == HybridMerge

SpecMerge == InitMerge /\ [][NextMerge]_vars

-----------------------------------------------------------------------------
(* Claims about hybrid_merge *)

ChunksOf(q) == [i \in DOMAIN q |-> q[i][1]]

\* The min-max normalized score of the i-th entry of a result list: 0 for
\* every entry when all scores are equal.
NormScore(q, i) ==
    LET lo == CHOOSE x \in {q[j][2] : j \in DOMAIN q} : \A j \in DOMAIN q : x <= q[j][2]
        hi == CHOOSE x \in {q[j][2] : j \in DOMAIN q} : \A j \in DOMAIN q : x >= q[j][2]
    IN  IF hi = lo THEN Zero ELSE Rat(q[i][2] - lo, hi - lo)

\* The rank of the i-th entry when the list is ranked by a score, highest
\* first, entries of equal score in the order of the list.
RankBy(q, Score(_, _), i) ==
    1 + Cardinality({j \in DOMAIN q : RLt(Score(q, i), Score(q, j))})
      + Cardinality({j \in DOMAIN q : j < i /\ Score(q, j) = Score(q, i)})

\* The chunks of the top-n entries of that ranking.
TopChunksBy(q, Score(_, _), n) ==
    [r \in 1..Min2(n, Len(q)) |->
        q[CHOOSE i \in DOMAIN q : RankBy(q, Score, i) = r][1]]

\* C6: with no lexical results, for every alpha in [0,1] and every k,
\* hybrid_merge returns exactly the top-k chunks of vec_results ranked by
\* their min-max normalized vector score, in that order.
C6_PureSemantic ==
    (pc = "merge_done" /\ lex_results = <<>>) =>
        ChunksOf(merged) = TopChunksBy(vec_results, NormScore, k)

\* Three vector results of different scores, no lexical result, a mixed alpha
\* and a k that cuts the list.
C6_Witness ==
    /\ pc = "merge_done"
    /\ lex_results = <<>>
    /\ Len(vec_results) = 3
    /\ vec_results[1][2] > vec_results[2][2]
    /\ vec_results[2][2] > vec_results[3][2]
    /\ alpha = Rat(1, 2)
    /\ k = 2
    /\ Len(merged) = 2

RawScore(q, i) == <<q[i][2], 1>>

\* C7: for alpha = 0 the chunks returned and their order are those of the
\* lexical results by falling lexical score, cut to k; the vector results
\* influence neither.
C7_PureLexical ==
    (pc = "merge_done" /\ alpha = Zero) =>
        ChunksOf(merged) = TopChunksBy(lex_results, RawScore, k)

\* The index of the first appearance of chunk c in the inputs, the vector
\* list first, then the lexical list.
FirstSeen(c) ==
    LET both == vec_results \o lex_results
    IN  CHOOSE i \in DOMAIN both :
            both[i][1] = c /\ \A j \in DOMAIN both : both[j][1] = c => i <= j

InputChunks == Range(ChunksOf(vec_results)) \cup Range(ChunksOf(lex_results))

\* C9: the output holds each distinct chunk at most once, has length
\* min(k, number of distinct chunks of the two inputs), is sorted by
\* non-increasing combined score, and orders chunks of equal score by their
\* first appearance in the inputs (vector list first, then lexical list).
C9_MergeOutputShape ==
    pc = "merge_done" =>
        /\ Injective(merged)
        /\ Range(ChunksOf(merged)) \subseteq InputChunks
        /\ Len(merged) = Min2(k, Cardinality(InputChunks))
        /\ \A i, j \in DOMAIN merged : i < j => RLe(merged[j][2], merged[i][2])
        /\ \A i, j \in DOMAIN merged :
            (i < j /\ merged[i][2] = merged[j][2])
                => FirstSeen(merged[i][1]) < FirstSeen(merged[j][1])

\* A chunk found by both indexes, two chunks of equal combined score in the
\* output, and a k that cuts the list.
C9_Witness ==
    /\ pc = "merge_done"
    /\ Range(ChunksOf(vec_results)) \cap Range(ChunksOf(lex_results)) # {}
    /\ Len(merged) < Cardinality(InputChunks)
    /\ \E i, j \in DOMAIN merged : i < j /\ merged[i][2] = merged[j][2]
    /\ \E i, j \in DOMAIN merged : merged[i][2] # merged[j][2]

-----------------------------------------------------------------------------
(* core/retrieve.py: _parse_dt, _freshness_weight, hybrid_with_freshness *)

NoDt == [ok |-> FALSE, aware |-> FALSE, wall |-> 0, off |-> 0]

\* _parse_dt(s): None for a falsy string and for one fromisoformat rejects.
_parse_dt(s) == IF ~Truthy(s) THEN NoDt ELSE fromisoformat(s)

RECURSIVE Pow2(_)
Pow2(n) == IF n = 0 THEN 1 ELSE 2 * Pow2(n - 1)

\* exp(-lam * age) for lam = j * ln 2 per tick and an age in ticks: 2^(-j*age).
exp_neg(j, age) ==
    IF j * age >= 0 THEN <<1, Pow2(j * age)>> ELSE <<Pow2(-(j * age)), 1>>

RMax(x, y) == IF RLe(y, x) THEN x ELSE y

\* The floor 0.2 of the weight.
WeightFloor == <<1, 5>>

Weight(w) == [raised |-> FALSE, w |-> w]

\* datetime.now(timezone.utc) - dt with a naive dt: TypeError.
WeightRaised == [raised |-> TRUE, w |-> Zero]

\* A weight that decays a chunk without a usable date to the floor.
_freshness_weight_undated(dt_iso, j, now) ==
    IF j <= 0 THEN Weight(One)
    ELSE LET dt == _parse_dt(dt_iso)
         IN  IF ~dt.ok THEN Weight(WeightFloor)
             ELSE IF ~dt.aware THEN WeightRaised
             ELSE Weight(RMax(WeightFloor, exp_neg(j, now - (dt.wall - dt.off))))

_freshness_weight(dt_iso, j, now) ==
    IF ~Truthy(dt_iso) \/ j <= 0 THEN Weight(One)
    ELSE LET dt == _parse_dt(dt_iso)
         IN  IF ~dt.ok THEN Weight(One)
             ELSE IF ~dt.aware THEN WeightRaised
             ELSE Weight(RMax(WeightFloor, exp_neg(j, now - (dt.wall - dt.off))))

\* for n in results: scores[id(n.node)] = scores.get(id(n.node), 0.0) + weight * n.score
RECURSIVE score_loop(_, _, _, _)
score_loop(results, weight, i, scores) ==
    IF i > Len(results) THEN scores
    ELSE score_loop(results, weight, i + 1,
                    dict_add(scores, results[i][1], RMul(weight, <<results[i][2], 1>>)))

\* A retrieved node is <<object, score>>; meta[object] is the dt_iso of the
\* node's metadata.
hybrid_with_freshness(vec, bm, a, j, n, meta, now) ==
    LET scores1 == score_loop(vec, a, 1, <<>>)
        scores == score_loop(bm, RSub(One, a), 1, scores1)
        wt == [i \in DOMAIN scores |-> _freshness_weight(meta[scores[i][1]], j, now)]
        weighted == [i \in DOMAIN scores |-> <<scores[i][1], RMul(scores[i][2], wt[i].w)>>]
    IN  IF \E i \in DOMAIN wt : wt[i].raised
        THEN [raised |-> TRUE, scores |-> scores, weights |-> <<>>, out |-> <<>>]
        ELSE [raised |-> FALSE, scores |-> scores,
              weights |-> [i \in DOMAIN scores |-> wt[i].w],
              out |-> take(sorted_desc(weighted), n)]

-----------------------------------------------------------------------------
(* Inputs of hybrid_with_freshness *)

MaxVecNodes == 2
MaxBmNodes == 1

\* The nodes of the index, by the dt_iso of their metadata: one without the
\* key, one with a string that is no date, one dated a tick ago, one dated a
\* tick ahead, and one dated without a zone.
FreshNow == 2 * TicksPerMonth

FreshNodes == 1..5

FreshMeta(c) ==
    CASE c = 1 -> None
      [] c = 2 -> BadStr
      [] c = 3 -> IsoOff(FreshNow, 1)
      [] c = 4 -> IsoZ(FreshNow + 1)
      [] c = 5 -> IsoNaive(FreshNow - 1)

\* id(n.node): the BM25 retriever hands back the nodes of built.nodes; the
\* vector retriever hands back either those objects or copies of them taken
\* from its store, which have identities of their own.
CopyOf(c) == -c
NodeOf(obj) == Abs(obj)
meta_dt_iso(obj) == FreshMeta(NodeOf(obj))
NodeObjects == FreshNodes \cup {CopyOf(c) : c \in FreshNodes}
Metadata == [obj \in NodeObjects |-> meta_dt_iso(obj)]

\* Scores fall with the rank: similarities 1, 2, ... and BM25 scores 3, 6, ...
VecNodeScore(len, i) == len + 1 - i
BmNodeScore(len, i) == 3 * (len + 1 - i)

Picks(n) == {q \in SeqsUpTo(FreshNodes, n) : \A i, j \in DOMAIN q : i # j => q[i] # q[j]}

VecNodeLists(n) ==
    {[i \in DOMAIN q |-> <<q[i], VecNodeScore(Len(q), i)>>] : q \in Picks(n)}
    \cup {[i \in DOMAIN q |-> <<CopyOf(q[i]), VecNodeScore(Len(q), i)>>] : q \in Picks(n)}

BmNodeLists ==
    {[i \in DOMAIN q |-> <<q[i], BmNodeScore(Len(q), i)>>] : q \in Picks(MaxBmNodes)}

LamSamples == {0, 1, 3}

InitFresh ==
    /\ pc = "fresh_call"
    /\ Idle("fresh")
    /\ local_tz = 0
    /\ now_utc = FreshNow
    /\ alpha \in Alphas
    /\ lam \in LamSamples
    /\ kN \in 1..MaxVecNodes
    /\ vec_nodes \in VecNodeLists(kN)
    /\ bm_nodes \in BmNodeLists
    /\ fresh = NotMerged

HybridWithFreshness ==
    /\ pc = "fresh_call"
    /\ fresh' = hybrid_with_freshness(vec_nodes, bm_nodes, alpha, lam, kN,
                                      Metadata, now_utc)
    /\ pc' = "fresh_done"
    /\ UNCHANGED <<envVars, vec_nodes, bm_nodes, lam, kN, exceptFresh>>

NextFresh == HybridWithFreshness

SpecFresh == InitFresh /\ [][NextFresh]_vars

-----------------------------------------------------------------------------
(* Claims about hybrid_with_freshness *)

\* The entry of a result list that holds an object, or 0.
EntryOf(q, obj) == IF HasKey(q, obj) THEN CHOOSE i \in DOMAIN q : q[i][1] = obj ELSE 0

\* The normalized score of an object in a list, 0 when it is absent from it.
NormOf(q, obj) == IF EntryOf(q, obj) = 0 THEN Zero ELSE NormScore(q, EntryOf(q, obj))

InUnit(x) == RLe(Zero, x) /\ RLe(x, One)

C8_Formula(vec, lex, obj) ==
    RAdd(RMul(alpha, NormOf(vec, obj)), RMul(RSub(One, alpha), NormOf(lex, obj)))

\* C8: in hybrid_merge and in hybrid_with_freshness, the combined score of a
\* chunk before any freshness weight is alpha * nv + (1 - alpha) * nl, with nv
\* and nl its min-max normalized scores in the two lists (0 for a list whose
\* scores are all equal and for a list the chunk is absent from), and it lies
\* in [0,1].
C8_CombinedScore ==
    /\ pc = "merge_done" =>
        \A i \in DOMAIN merged :
            /\ merged[i][2] = C8_Formula(vec_results, lex_results, merged[i][1])
            /\ InUnit(merged[i][2])
    /\ pc = "fresh_done" =>
        \A i \in DOMAIN fresh.scores :
            /\ fresh.scores[i][2] = C8_Formula(vec_nodes, bm_nodes, fresh.scores[i][1])
            /\ InUnit(fresh.scores[i][2])

\* A date the weight cannot use: no dt_iso, an empty one, or a string that is
\* no ISO-8601 date.
Unresolvable(s) == ~Truthy(s) \/ ~fromisoformat(s).ok

\* C10: the freshness weight is 1 for every dt_iso when lambda = 0, and for
\* every lambda when the chunk has no dt_iso or one that resolves to no
\* timestamp; the score of such a chunk in the result is its merged score.
C10_UndatedWeightOne ==
    pc = "fresh_done" =>
        /\ lam = 0 => ~fresh.raised
        /\ ~fresh.raised =>
            /\ \A i \in DOMAIN fresh.scores :
                (lam = 0 \/ Unresolvable(meta_dt_iso(fresh.scores[i][1])))
                    => fresh.weights[i] = One
            /\ \A i \in DOMAIN fresh.out :
                (lam = 0 \/ Unresolvable(meta_dt_iso(fresh.out[i][1])))
                    => \E j \in DOMAIN fresh.scores : fresh.scores[j] = fresh.out[i]

\* A positive lambda, a chunk without dt_iso and one with an unparseable
\* dt_iso, both of non-zero merged score and both in the result.
C10_Witness ==
    /\ pc = "fresh_done"
    /\ ~fresh.raised
    /\ lam > 0
    /\ \E i, j \in DOMAIN fresh.out :
        /\ meta_dt_iso(fresh.out[i][1]) = None
        /\ meta_dt_iso(fresh.out[j][1]) = BadStr
        /\ fresh.out[i][2] # Zero
        /\ fresh.out[j][2] # Zero

\* Zero lambda and a dated chunk of non-zero merged score in the result.
C10_WitnessDated ==
    /\ pc = "fresh_done"
    /\ lam = 0
    /\ \E i \in DOMAIN fresh.out :
        /\ fromisoformat(meta_dt_iso(fresh.out[i][1])).ok
        /\ fresh.out[i][2] # Zero

-----------------------------------------------------------------------------
(* app.py: text helpers. A str is the sequence of its characters. *)

UpperCase ==
    <<"A", "B", "C", "D", "E", "F", "G", "H", "I", "J", "K", "L", "M", "N",
      "O", "P", "Q", "R", "S", "T", "U", "V", "W", "X", "Y", "Z">>

LowerCase ==
    <<"a", "b", "c", "d", "e", "f", "g", "h", "i", "j", "k", "l", "m", "n",
      "o", "p", "q", "r", "s", "t", "u", "v", "w", "x", "y", "z">>

\* str.lower()
lower(text) ==
    [i \in DOMAIN text |->
        IF \E n \in DOMAIN UpperCase : UpperCase[n] = text[i]
        THEN LowerCase[CHOOSE n \in DOMAIN UpperCase : UpperCase[n] = text[i]]
        ELSE text[i]]

\* w in text: w occurs in text as a substring.
Contains(text, w) ==
    \E i \in 1..(Len(text) - Len(w) + 1) : SubSeq(text, i, i + Len(w) - 1) = w

\* The list of _mentions_timeframe.
TimeframeWords ==
    << <<"m", "o", "n", "t", "h">>,
       <<"y", "e", "a", "r">>,
       <<"w", "e", "e", "k">>,
       <<"d", "a", "y">>,
       <<"b", "e", "t", "w", "e", "e", "n">>,
       <<"s", "i", "n", "c", "e">>,
       <<"f", "r", "o", "m">>,
       <<"t", "o">>,
       <<"r", "a", "n", "g", "e">> >>

_mentions_timeframe(text) ==
    LET s == lower(text)
    IN  \E n \in DOMAIN TimeframeWords : Contains(s, TimeframeWords[n])

\* The list of is_spend_query.
SpendTriggers ==
    << <<"s", "p", "e", "n", "d">>,
       <<"t", "o", "p", " ", "m", "e", "r", "c", "h", "a", "n", "t">>,
       <<"m", "o", "s", "t">>,
       <<"h", "i", "g", "h", "e", "s", "t", " ", "s", "p", "e", "n", "d">> >>

AssumeSuffix ==
    <<" ", "(", "a", "s", "s", "u", "m", "e", " ", "c", "u", "r", "r", "e",
      "n", "t", " ", "c", "a", "l", "e", "n", "d", "a", "r", " ", "m", "o",
      "n", "t", "h", ")">>

\* The first line of the text bound to default_timeframe_hint.
TimeframeHint ==
    <<"-", " ", "I", "f", " ", "n", "o", " ", "t", "i", "m", "e", "f", "r",
      "a", "m", "e", " ", "i", "s", " ", "s", "p", "e", "c", "i", "f", "i",
      "e", "d", ",", " ", "a", "s", "s", "u", "m", "e", " ", "t", "h", "e",
      " ", "*", "*", "c", "u", "r", "r", "e", "n", "t", " ", "c", "a", "l",
      "e", "n", "d", "a", "r", " ", "m", "o", "n", "t", "h", "*", "*">>

-----------------------------------------------------------------------------
(* app.py: the run of the script on a chat input *)

is_spend_query(q) ==
    \E n \in DOMAIN SpendTriggers : Contains(lower(q), SpendTriggers[n])

\* The default window is inferred: lines 164-170 run.
infers_month(q) == is_spend_query(q) /\ ~_mentions_timeframe(q)

normalized_q(q) == IF infers_month(q) THEN q \o AssumeSuffix ELSE q

\* candidates after lines 185-186.
turn_candidates(q, retr, now, tz) ==
    IF is_spend_query(q) THEN filter_spend_current_month(retr, now, tz) ELSE retr

K_FINAL == 3

\* What LLMRerank.postprocess_nodes can return: at most k of the nodes given
\* to it, each once, in the order the model chose.
RerankOutcomes(cands, n) ==
    {[i \in DOMAIN sel |-> cands[sel[i]]] :
        sel \in {x \in SeqsUpTo(DOMAIN cands, Min2(n, Len(cands))) :
                    \A i, j \in DOMAIN x : i # j => x[i] # x[j]}}

\* The prompt of build_extraction_prompt: fixed text around the numbered
\* context and the question.
build_extraction_prompt(question, ctx) == [context |-> ctx, question |-> question]

\* Lines 159-210: the script's variables when the generation call is made.
script_run(q0, system, reranker, retr, reranked, now, tz) ==
    LET q == normalized_q(q0)
        cands == turn_candidates(q0, retr, now, tz)
        final == IF reranker = "llm" THEN reranked ELSE take(cands, K_FINAL)
        ctx == [i \in DOMAIN final |-> <<i, final[i].node>>]
    IN  [ is_spend_query |-> is_spend_query(q0),
          default_timeframe_hint |-> IF infers_month(q0) THEN TimeframeHint ELSE <<>>,
          q |-> q,
          candidates |-> cands,
          nodes |-> final,
          messages |-> << [role |-> "system", content |-> system],
                          [role |-> "user", content |-> build_extraction_prompt(q, ctx)] >>,
          final_answer |-> <<>>,
          raised |-> FALSE ]

\* Settings.llm.chat(messages) raises, answers with JSON that format_answer
\* takes, or answers with text that goes through post_process.
LlmOutcomes == {"raises", "json", "text"}

final_answer_of(llm) == IF llm = "json" THEN <<"format_answer">> ELSE <<"post_process">>

-----------------------------------------------------------------------------
(* Inputs of a run of the script *)

QTopMerchant ==
    <<"t", "o", "p", " ", "m", "e", "r", "c", "h", "a", "n", "t">>

QSpendMost ==
    <<"w", "h", "e", "r", "e", " ", "d", "i", "d", " ", "I", " ", "s", "p",
      "e", "n", "d", " ", "m", "o", "s", "t">>

QSpendStore ==
    <<"S", "p", "e", "n", "d", " ", "a", "t", " ", "s", "t", "o", "r", "e">>

QSpendYear ==
    <<"s", "p", "e", "n", "d", " ", "t", "h", "i", "s", " ", "y", "e", "a",
      "r">>

QLastPayment ==
    <<"l", "a", "s", "t", " ", "p", "a", "y", "m", "e", "n", "t">>

TurnQueries == {<<>>, QTopMerchant, QSpendMost, QSpendStore, QSpendYear, QLastPayment}

\* Two contents of the prompt files: rules that state the default window and
\* rules that do not.
SystemWithRule ==
    <<"F", "o", "r", " ", "s", "p", "e", "n", "d", "/", "t", "o", "p", "-",
      "m", "e", "r", "c", "h", "a", "n", "t", " ", "w", "i", "t", "h", "o",
      "u", "t", " ", "t", "i", "m", "e", "f", "r", "a", "m", "e", ",", " ",
      "a", "s", "s", "u", "m", "e", " ", "t", "h", "e", " ", "c", "u", "r",
      "r", "e", "n", "t", " ", "c", "a", "l", "e", "n", "d", "a", "r", " ",
      "m", "o", "n", "t", "h", ".">>

SystemWithoutRule ==
    <<"A", "n", "s", "w", "e", "r", " ", "b", "r", "i", "e", "f", "l", "y",
      " ", "a", "n", "d", " ", "c", "l", "e", "a", "r", "l", "y", ".">>

SystemSamples == {SystemWithRule, SystemWithoutRule}

TurnNow == TicksPerMonth + 2

\* Metadata of retrieved nodes: a spend candidate of this month, one of last
\* month, a payment of this month, and a statement.
TurnMeta ==
    { [kind |-> "transaction", spend_candidate |-> True, dt_iso |-> IsoZ(TicksPerMonth + 1)],
      [kind |-> "transaction", spend_candidate |-> True, dt_iso |-> IsoZ(TicksPerMonth - 1)],
      [kind |-> "transaction", spend_candidate |-> False, dt_iso |-> IsoZ(TicksPerMonth + 1)],
      [kind |-> "statement", spend_candidate |-> Missing, dt_iso |-> IsoZ(TicksPerMonth - 1)] }

Greeting == <<[role |-> "assistant", content |-> <<"Hi!">>]>>

InitTurn ==
    /\ pc = "turn_call"
    /\ Idle("turn")
    /\ local_tz = 0
    /\ now_utc = TurnNow
    /\ alpha = <<0, 1>>
    /\ q_in \in TurnQueries
    /\ SYSTEM \in SystemSamples
    /\ RERANKER \in {"none", "llm"}
    /\ retrieved \in {Ranked(ms) : ms \in SeqsUpTo(TurnMeta, MaxNodes)}
    /\ history = Greeting
    /\ turn = NoTurn

\* if not q: st.stop()
TurnStop ==
    /\ pc = "turn_call"
    /\ q_in = <<>>
    /\ pc' = "turn_stopped"
    /\ UNCHANGED <<envVars, turnVars, exceptTurn>>

Turn ==
    /\ pc = "turn_call"
    /\ q_in # <<>>
    /\ \E llm \in LlmOutcomes :
       \E reranked \in RerankOutcomes(turn_candidates(q_in, retrieved, now_utc, local_tz), K_FINAL) :
          LET run == script_run(q_in, SYSTEM, RERANKER, retrieved, reranked, now_utc, local_tz)
          IN  IF llm = "raises"
              THEN /\ turn' = [run EXCEPT !.raised = TRUE]
                   /\ history' = history
              ELSE /\ turn' = [run EXCEPT !.final_answer = final_answer_of(llm)]
                   /\ history' = history \o
                        << [role |-> "user", content |-> run.q],
                           [role |-> "assistant", content |-> final_answer_of(llm)] >>
    /\ pc' = "turn_done"
    /\ UNCHANGED <<envVars, q_in, SYSTEM, RERANKER, retrieved, exceptTurn>>

NextTurn == TurnStop \/ Turn

SpecTurn == InitTurn /\ [][NextTurn]_vars

-----------------------------------------------------------------------------
(* Claims about the run of the script *)

IsLetter(c) == \E n \in DOMAIN LowerCase : LowerCase[n] = c

\* The text has w as one of its words: an occurrence of w with no letter
\* before it and none after it.
HasWord(text, w) ==
    \E i \in 1..(Len(text) - Len(w) + 1) :
        /\ SubSeq(text, i, i + Len(w) - 1) = w
        /\ (i = 1 \/ ~IsLetter(text[i - 1]))
        /\ (i + Len(w) - 1 = Len(text) \/ ~IsLetter(text[i + Len(w)]))

NamesTimeframeWord(text) ==
    \E n \in DOMAIN TimeframeWords : HasWord(lower(text), TimeframeWords[n])

CurrentCalendarMonth ==
    <<"c", "u", "r", "r", "e", "n", "t", " ", "c", "a", "l", "e", "n", "d",
      "a", "r", " ", "m", "o", "n", "t", "h">>

\* The messages handed to the generation call carry an instruction about the
\* current calendar month, in the system prompt or with the question.
HasMonthInstruction(messages) ==
    \/ Contains(lower(messages[1].content), CurrentCalendarMonth)
    \/ Contains(lower(messages[2].content.question), CurrentCalendarMonth)

\* Every transaction among the candidates is dated within the current
\* calendar month (UTC) up to now.
ScopedToMonth(cands) ==
    \A i \in DOMAIN cands :
        cands[i].node.kind = "transaction" =>
            /\ ParsesAsIso(cands[i].node.dt_iso)
            /\ FirstInstantOfMonth(now_utc) <= InstantOf(cands[i].node.dt_iso, local_tz)
            /\ InstantOf(cands[i].node.dt_iso, local_tz) <= now_utc

\* C5: for every query classified as a spend or top-merchant query that names
\* none of the timeframe words, the run scopes the transaction candidates to
\* the current calendar month up to now, and the prompt handed to the
\* generation call contains an explicit current-calendar-month instruction.
C5_DefaultMonthSurfaced ==
    (pc = "turn_done" /\ turn.is_spend_query /\ ~NamesTimeframeWord(q_in)) =>
        /\ ScopedToMonth(turn.candidates)
        /\ HasMonthInstruction(turn.messages)

-----------------------------------------------------------------------------
(* backend/rerankers/llm_reranker.py: rerank_with_llm *)

\* An element of a JSON "scores" value: one float() takes, or one it rejects.
Num(v) == [ok |-> TRUE, v |-> v]
NotNum == [ok |-> FALSE, v |-> 0]

\* What llm.chat does for a batch:
\*   "raises"        the backend call raises
\*   "not_json"      the text is not JSON: json.loads raises
\*   "not_object"    JSON that is no object (a list, a number): data.get raises
\*   "no_key"        a JSON object without the key "scores": scores = []
\*   "not_iterable"  "scores" is a number or null: zip raises
\*   "scores"        "scores" is a list, of the elements given
Response(form, scores) == [form |-> form, scores |-> scores]

\* zip(batch_items, scores) with float(s), 0.0 for an element float rejects.
zip_scores(batch_items, scores) ==
    [i \in 1..Min2(Len(batch_items), Len(scores)) |->
        <<batch_items[i], IF scores[i].ok THEN <<scores[i].v, 1>> ELSE Zero>>]

zero_scores(batch_items) == [i \in DOMAIN batch_items |-> <<batch_items[i], Zero>>]

\* The try block of lines 17-26 for one batch: what is added to out.
score_batch(batch_items, resp) ==
    CASE resp.form = "scores" -> zip_scores(batch_items, resp.scores)
      [] resp.form = "no_key" -> zip_scores(batch_items, <<>>)
      [] OTHER                -> zero_scores(batch_items)

\* candidates[i:i+batch] for the b-th batch, b = 1, 2, ...
batch_of(cands, batch, b) ==
    SubSeq(cands, (b - 1) * batch + 1, Min2(b * batch, Len(cands)))

\* len(range(0, len(candidates), batch))
batch_count(cands, batch) == (Len(cands) + batch - 1) \div batch

\* The for loop of lines 12-26 from batch b on; llm.chat is called outside the
\* try block, so its exception leaves the function.
RECURSIVE rerank_loop(_, _, _, _, _)
rerank_loop(cands, batch, resps, b, acc) ==
    IF b > batch_count(cands, batch) THEN [raised |-> FALSE, out |-> acc]
    ELSE IF resps[b].form = "raises" THEN [raised |-> TRUE, out |-> <<>>]
    ELSE rerank_loop(cands, batch, resps, b + 1,
                     acc \o score_batch(batch_of(cands, batch, b), resps[b]))

rerank_with_llm(cands, batch, resps) ==
    LET r == rerank_loop(cands, batch, resps, 1, <<>>)
    IN  IF r.raised THEN r ELSE [raised |-> FALSE, out |-> sorted_desc(r.out)]

-----------------------------------------------------------------------------
(* Inputs of rerank_with_llm *)

MaxCands == 3
RerankBatch == 2
MaxScores == 2

ScoreElems == {Num(1), Num(2), NotNum}

Responses ==
    {Response(f, <<>>) : f \in {"raises", "not_json", "not_object", "no_key", "not_iterable"}}
    \cup {Response("scores", ss) : ss \in SeqsUpTo(ScoreElems, MaxScores)}

\* The candidates are distinct chunks, named by their place in the list.
InitRerank ==
    /\ pc = "rerank_call"
    /\ Idle("rerank")
    /\ local_tz = 0
    /\ now_utc = 0
    /\ alpha = <<0, 1>>
    /\ \E n \in 0..MaxCands :
        /\ candidates = [i \in 1..n |-> i]
        /\ responses \in [1..batch_count(candidates, RerankBatch) -> Responses]
    /\ judged = NotReranked

RerankWithLlm ==
    /\ pc = "rerank_call"
    /\ judged' = rerank_with_llm(candidates, RerankBatch, responses)
    /\ pc' = "rerank_done"
    /\ UNCHANGED <<envVars, candidates, responses, exceptRerank>>

NextRerank == RerankWithLlm

SpecRerank == InitRerank /\ [][NextRerank]_vars

-----------------------------------------------------------------------------
(* Claims about rerank_with_llm *)

\* The response is no structured score list: it is not JSON, or it is JSON
\* without a list under "scores".
ParseFails(resp) == resp.form \in {"not_json", "not_object", "no_key", "not_iterable"}

Batches == 1..batch_count(candidates, RerankBatch)

\* C11: when the response for a batch fails to parse as a structured score
\* list, every candidate of that batch is in the output exactly once with
\* score 0.0; when every batch fails to parse, the output is the input
\* candidates in their original order, each with score 0.0.
C11_ParseFailureKeepsAll ==
    (pc = "rerank_done" /\ ~judged.raised) =>
        /\ \A b \in Batches :
            ParseFails(responses[b]) =>
                \A c \in Range(batch_of(candidates, RerankBatch, b)) :
                    Cardinality({i \in DOMAIN judged.out :
                                    judged.out[i] = <<c, Zero>>}) = 1
        /\ (\A b \in Batches : ParseFails(responses[b])) =>
                judged.out = zero_scores(candidates)

\* C12: when the judge-model call raises for a batch, rerank_with_llm does not
\* raise: it returns every candidate, each once, with score 0.0.
C12_BackendFailureDegrades ==
    (pc = "rerank_done" /\ \E b \in Batches : responses[b].form = "raises") =>
        /\ ~judged.raised
        /\ judged.out = zero_scores(candidates)

-----------------------------------------------------------------------------
(* backend/utils/text.py: normalize_ws, chunk_text; the agreement chunks of *)
(* build_corpus and the agreement node of build_indexes                     *)

IsWs(c) == c \in {" ", "\n"}

\* re.sub(r"\s+", " ", s.strip()): blanks at both ends go, every other run of
\* blanks becomes one space.
normalize_ws(s) ==
    LET Keep(i) == \/ ~IsWs(s[i])
                   \/ /\ i > 1 /\ ~IsWs(s[i - 1])
                      /\ \E j \in (i + 1)..Len(s) : ~IsWs(s[j])
        kept == SelectSeq([i \in 1..Len(s) |-> i], Keep)
    IN  [n \in DOMAIN kept |-> IF IsWs(s[kept[n]]) THEN " " ELSE s[kept[n]]]

\* The while loop of chunk_text; start counts from 0 as in the source.
RECURSIVE chunk_loop(_, _, _, _, _)
chunk_loop(text, chunk_size, overlap, start, chunks) ==
    IF ~(start < Len(text)) THEN chunks
    ELSE LET end == Min2(start + chunk_size, Len(text))
             more == Append(chunks, SubSeq(text, start + 1, end))
         IN  IF end = Len(text) THEN more
             ELSE chunk_loop(text, chunk_size, overlap, Max2(0, end - overlap), more)

chunk_text(text, chunk_size, overlap) ==
    LET t == normalize_ws(text)
    IN  IF t = <<>> THEN <<>> ELSE chunk_loop(t, chunk_size, overlap, 0, <<>>)

\* chunk_text(pdf_text, 1000, 200) with the sizes scaled down.
ChunkSize == 4
Overlap == 2

\* build_corpus, lines 77-79: the texts of the agreement chunks, without the
\* prefix "AGREEMENT: ".
corpus_agreement(text) == chunk_text(text, ChunkSize, Overlap)

\* build_indexes, lines 213-220: one node with the whole text when it is not
\* empty, without the prefix "AGREEMENT\n".
index_agreement(text) == IF text # <<>> THEN <<text>> ELSE <<>>

-----------------------------------------------------------------------------
(* Inputs: agreement texts *)

MaxText == 7

TextChars == {"a", "b", " ", "\n"}

InitAgreement ==
    /\ pc = "agreement_call"
    /\ Idle("agreement")
    /\ local_tz = 0
    /\ now_utc = 0
    /\ alpha = <<0, 1>>
    /\ pdf_text \in SeqsUpTo(TextChars, MaxText)
    /\ windows = <<>>

CorpusAgreement ==
    /\ pc = "agreement_call"
    /\ windows' = corpus_agreement(pdf_text)
    /\ pc' = "corpus_agreement_done"
    /\ UNCHANGED <<envVars, pdf_text, exceptAgreement>>

IndexAgreement ==
    /\ pc = "agreement_call"
    /\ windows' = index_agreement(pdf_text)
    /\ pc' = "index_agreement_done"
    /\ UNCHANGED <<envVars, pdf_text, exceptAgreement>>

NextAgreement == CorpusAgreement \/ IndexAgreement

SpecAgreement == InitAgreement /\ [][NextAgreement]_vars

-----------------------------------------------------------------------------
(* Claims about the agreement windows *)

\* The text with every blank run reduced as the claim's normalization says.
Normalized == normalize_ws(pdf_text)

\* The windows laid end to end with the shared part of each taken once.
RECURSIVE Stitch(_, _)
Stitch(ws, n) ==
    IF n = 0 THEN <<>>
    ELSE IF n = 1 THEN ws[1]
    ELSE Stitch(ws, n - 1) \o SubSeq(ws[n], Overlap + 1, Len(ws[n]))

WindowsCover(ws, t) ==
    /\ \A i \in DOMAIN ws : Len(ws[i]) >= 1 /\ Len(ws[i]) <= ChunkSize
    /\ \A i \in 1..(Len(ws) - 1) :
        /\ Len(ws[i]) >= Overlap /\ Len(ws[i + 1]) > Overlap
        /\ SubSeq(ws[i], Len(ws[i]) - Overlap + 1, Len(ws[i])) = SubSeq(ws[i + 1], 1, Overlap)
    /\ Stitch(ws, Len(ws)) = t

\* C17: the agreement text is emitted as windows of at most ChunkSize
\* characters, consecutive windows share exactly Overlap characters, and the
\* windows laid end to end are the whitespace-normalized text from its first
\* to its last character.
C17_AgreementWindows ==
    pc \in {"corpus_agreement_done", "index_agreement_done"} =>
        WindowsCover(windows, Normalized)

\* The same for the chunks of build_corpus alone.
C17_CorpusWindows ==
    pc = "corpus_agreement_done" => WindowsCover(windows, Normalized)

C17_CorpusWitness ==
    /\ pc = "corpus_agreement_done"
    /\ Len(windows) = 2
    /\ Len(windows[2]) < ChunkSize
    /\ Len(Normalized) < Len(pdf_text)

-----------------------------------------------------------------------------
(* backend/models/banking.py and backend/loaders/json_loader.py: load_all,  *)
(* flatten_for_rag                                                          *)

\* A JSON number (in cents), or None / key missing.
NoNumber == [has |-> FALSE, v |-> 0]
Number(v) == [has |-> TRUE, v |-> v]

\* A record of a JSON file carries, next to its values, has_ym and
\* has_interestFlag: whether the JSON object has a key "ym" / "interestFlag".

\* a or b for two Optional[str] dates.
or_date(a, b) == IF Truthy(a) THEN a ELSE b

\* f"{dt.year:04d}-{dt.month:02d}" of banking._parse_dt(v): the month of the
\* wall-clock reading the string carries, None when v is falsy or no date.
wall_ym(v) ==
    LET dt == _parse_dt(v)
    IN  IF dt.ok THEN YmStr(dt.wall \div TicksPerMonth) ELSE NoYm

\* s.upper() == "INTEREST", s.lower() == "interest_charged": no strip.
EqualsNoCase(s, base) == s.style \in {"plain", "upper"} /\ s.base = base

\* "interest" in s.lower(), "INTEREST" in s.upper()
HasInterest(s) == s.style # "none" /\ s.base \in {"interest", "interest_charged", "interest bank"}

or_str(a, b) == IF StrTruthy(a) THEN a ELSE b

\* Statement(**x).model_dump(): a field validator with mode="before" runs only
\* when the input carries the field, so ym is derived when the JSON object has
\* a key "ym" and stays at its default None otherwise.
dump_statement(x) ==
    [ statementId |-> x.statementId,
      closingDateTime |-> x.closingDateTime,
      openingDateTime |-> x.openingDateTime,
      interestCharged |-> x.interestCharged,
      ym |-> IF x.has_ym THEN wall_ym(or_date(x.closingDateTime, x.openingDateTime))
             ELSE NoYm ]

\* Transaction(**x).model_dump(): ym and interestFlag likewise.
dump_transaction(x) ==
    [ transactionId |-> x.transactionId,
      amount |-> x.amount,
      transactionDateTime |-> x.transactionDateTime,
      postingDateTime |-> x.postingDateTime,
      transactionType |-> x.transactionType,
      displayTransactionType |-> x.displayTransactionType,
      merchantName |-> x.merchantName,
      ym |-> IF x.has_ym THEN wall_ym(or_date(x.transactionDateTime, x.postingDateTime))
             ELSE NoYm,
      interestFlag |-> IF x.has_interestFlag
                       THEN \/ HasInterest(or_str(x.transactionType, x.displayTransactionType))
                            \/ HasInterest(x.merchantName)
                       ELSE FALSE ]

\* AccountSummary(**x) and Payment(**x): the declared fields as given.
dump_plain(x) == x

\* The required fields: pydantic raises ValidationError without them.
valid_record(kind, x) ==
    CASE kind = "account_summary" -> x.accountId # Missing
      [] kind = "statement"       -> x.statementId # Missing
      [] kind = "transaction"     -> x.transactionId # Missing /\ x.amount.has
      [] kind = "payment"         -> TRUE

dump_record(kind, x) ==
    CASE kind = "statement"   -> dump_statement(x)
      [] kind = "transaction" -> dump_transaction(x)
      [] OTHER                -> dump_plain(x)

Kinds == <<"account_summary", "statements", "transactions", "payments">>

KindOf(file) ==
    CASE file = "account_summary" -> "account_summary"
      [] file = "statements"      -> "statement"
      [] file = "transactions"    -> "transaction"
      [] file = "payments"        -> "payment"

\* load_all: every record of every file goes through its model; one record
\* that fails validation makes the list comprehension, and load_all, raise.
load_all(d) ==
    IF \E f \in Range(Kinds) : \E i \in DOMAIN d[f] : ~valid_record(KindOf(f), d[f][i])
    THEN [raised |-> TRUE, data |-> <<>>]
    ELSE [raised |-> FALSE,
          data |-> [f \in Range(Kinds) |->
                        [i \in DOMAIN d[f] |-> dump_record(KindOf(f), d[f][i])]]]

record_id(kind, a) ==
    CASE kind = "account_summary" -> a.accountId
      [] kind = "statement"       -> a.statementId
      [] kind = "transaction"     -> a.transactionId
      [] kind = "payment"         -> a.paymentId

\* a.get("ym"): an account summary has no such field, and the payments of the
\* inputs carry no key "ym", so theirs stays None.
record_ym(kind, a) == IF kind \in {"statement", "transaction"} THEN a.ym ELSE NoYm

\* One item of flatten_for_rag: the text is the header and the JSON of the
\* dumped record.
flat_item(kind, a) ==
    [ text |-> [kind |-> kind, json |-> a],
      source |-> kind,
      meta |-> [id |-> record_id(kind, a), ym |-> record_ym(kind, a), raw |-> a] ]

flat_rows(data, file) == [i \in DOMAIN data[file] |-> flat_item(KindOf(file), data[file][i])]

\* The flattener with the transactions ahead of the statements.
flatten_for_rag_tx_first(data) ==
    flat_rows(data, "account_summary") \o flat_rows(data, "transactions")
    \o flat_rows(data, "statements") \o flat_rows(data, "payments")

flatten_for_rag(data) ==
    flat_rows(data, "account_summary") \o flat_rows(data, "statements")
    \o flat_rows(data, "transactions") \o flat_rows(data, "payments")

-----------------------------------------------------------------------------
(* backend/rag/corpus.py: build_corpus *)

Chunk(text, source, meta) == [text |-> text, source |-> source, meta |-> meta]

\* is_interest of lines 39-44
is_interest(raw) ==
    \/ raw.interestFlag
    \/ EqualsNoCase(raw.transactionType, "interest")
    \/ EqualsNoCase(raw.displayTransactionType, "interest_charged")
    \/ HasInterest(raw.merchantName)

\* Lines 27-32: the statement row adds float(val) to interest_stmt[ym] when
\* ym is truthy and interestCharged is a number.
stmt_counts(row) ==
    row.source = "statement" /\ row.meta.ym.has /\ row.meta.raw.interestCharged.has

\* Lines 35-48: the transaction row adds abs(float(amt)) to interest_tx[ym]
\* when ym is truthy, the row is an interest row and amount is a number.
tx_counts(row) ==
    /\ row.source = "transaction" /\ row.meta.ym.has
    /\ is_interest(row.meta.raw) /\ row.meta.raw.amount.has

EmptyDict == [x \in {} |-> 0]

\* d[key] += v on a defaultdict(float).
dict_plus(d, key, v) ==
    [x \in DOMAIN d \cup {key} |->
        (IF x \in DOMAIN d THEN d[x] ELSE 0) + (IF x = key THEN v ELSE 0)]

RECURSIVE stmt_loop(_, _)
stmt_loop(flat, d) ==
    IF flat = <<>> THEN d
    ELSE stmt_loop(Tail(flat),
                   IF stmt_counts(Head(flat))
                   THEN dict_plus(d, Head(flat).meta.ym.m,
                                  Head(flat).meta.raw.interestCharged.v)
                   ELSE d)

RECURSIVE tx_loop(_, _)
tx_loop(flat, d) ==
    IF flat = <<>> THEN d
    ELSE tx_loop(Tail(flat),
                 IF tx_counts(Head(flat))
                 THEN dict_plus(d, Head(flat).meta.ym.m, Abs(Head(flat).meta.raw.amount.v))
                 ELSE d)

interest_stmt(flat) == stmt_loop(flat, EmptyDict)
interest_tx(flat) == tx_loop(flat, EmptyDict)

\* sorted(d.items()): the keys in rising order.
RECURSIVE SortedKeys(_)
SortedKeys(S) ==
    IF S = {} THEN <<>>
    ELSE LET lo == CHOOSE x \in S : \A y \in S : x <= y
         IN  <<lo>> \o SortedKeys(S \ {lo})

\* Lines 51-62: one chunk per key of a dict, in rising ym.
aggregate_chunks(d, metric) ==
    LET keys == SortedKeys(DOMAIN d)
    IN  [n \in DOMAIN keys |->
            Chunk([ym |-> YmStr(keys[n]), metric |-> metric, value |-> d[keys[n]]],
                  "aggregate",
                  [ym |-> YmStr(keys[n]), metric |-> metric])]

\* sum(d.values())
RECURSIVE sum_values(_)
sum_values(d) ==
    IF DOMAIN d = {} THEN 0
    ELSE LET x == CHOOSE y \in DOMAIN d : TRUE
         IN  d[x] + sum_values([y \in DOMAIN d \ {x} |-> d[y]])

\* Lines 65-72: the latest ym and the two overall totals.
overall_chunks(flat) ==
    LET all_yms == DOMAIN interest_stmt(flat) \cup DOMAIN interest_tx(flat)
    IN  IF all_yms = {} THEN <<>>
        ELSE << Chunk([latest_ym |-> YmStr(CHOOSE x \in all_yms : \A y \in all_yms : y <= x)],
                      "aggregate",
                      [latest_ym |-> YmStr(CHOOSE x \in all_yms : \A y \in all_yms : y <= x)]),
                Chunk([metric |-> "overall_interest_from_statements_total",
                       value |-> sum_values(interest_stmt(flat))],
                      "aggregate",
                      [metric |-> "overall_interest_from_statements_total"]),
                Chunk([metric |-> "overall_interest_from_interest_transactions_total",
                       value |-> sum_values(interest_tx(flat))],
                      "aggregate",
                      [metric |-> "overall_interest_from_interest_transactions_total"]) >>

\* Lines 75-79: extract_pdf_text gives "" for a file it cannot read.
agreement_chunks(d) ==
    IF d.pdf_exists
    THEN LET ws == chunk_text(d.pdf_text, ChunkSize, Overlap)
         IN  [i \in DOMAIN ws |-> Chunk(ws[i], "agreement", [file |-> "agreement.pdf"])]
    ELSE <<>>

build_corpus(d) ==
    LET loaded == load_all(d)
    IN  IF loaded.raised THEN [raised |-> TRUE, docs |-> <<>>]
        ELSE LET flat == flatten_for_rag(loaded.data)
                 rows == [i \in DOMAIN flat |->
                            Chunk(flat[i].text, flat[i].source, flat[i].meta)]
             IN  [raised |-> FALSE,
                  docs |-> rows
                    \o aggregate_chunks(interest_stmt(flat),
                                        "interest_from_statements_total")
                    \o aggregate_chunks(interest_tx(flat),
                                        "interest_from_interest_transactions_total")
                    \o overall_chunks(flat)
                    \o agreement_chunks(d)]

-----------------------------------------------------------------------------
(* Inputs of build_corpus *)

MaxRecs == 2

StatementRecord(id, closing, opening, hasYm, interest) ==
    [ statementId |-> id, closingDateTime |-> closing, openingDateTime |-> opening,
      has_ym |-> hasYm, interestCharged |-> interest ]

StatementRecords ==
    { StatementRecord("s1", IsoZ(TicksPerMonth + 1), None, TRUE, Number(5)),
      StatementRecord("s2", None, IsoNaive(2 * TicksPerMonth), TRUE, Number(7)),
      StatementRecord("s3", IsoZ(TicksPerMonth + 2), None, TRUE, NoNumber),
      StatementRecord("s4", IsoZ(TicksPerMonth + 1), None, FALSE, Number(3)),
      StatementRecord(Missing, IsoZ(TicksPerMonth + 1), None, TRUE, Number(1)) }

TransactionRecord(id, amt, tdt, pdt, tt, dtt, merchant, hasYm, hasFlag) ==
    [ transactionId |-> id, amount |-> amt,
      transactionDateTime |-> tdt, postingDateTime |-> pdt,
      transactionType |-> tt, displayTransactionType |-> dtt, merchantName |-> merchant,
      has_ym |-> hasYm, has_interestFlag |-> hasFlag ]

TransactionRecords ==
    { TransactionRecord("t1", Number(-4), IsoZ(1), None, Str("interest", "upper"), NoStr,
                        NoStr, TRUE, FALSE),
      TransactionRecord("t2", Number(6), None, IsoZ(TicksPerMonth + 1), NoStr, NoStr,
                        Str("interest bank", "plain"), TRUE, TRUE),
      TransactionRecord("t3", Number(9), IsoZ(TicksPerMonth + 1), None,
                        Str("purchase", "upper"), NoStr, Str("shop", "plain"), TRUE, FALSE),
      TransactionRecord("t4", Number(5), IsoZ(TicksPerMonth + 1), None,
                        Str("interest", "upper"), NoStr, NoStr, FALSE, FALSE),
      TransactionRecord("t5", NoNumber, IsoZ(TicksPerMonth + 1), None,
                        Str("purchase", "upper"), NoStr, NoStr, TRUE, FALSE) }

AccountRecord == [accountId |-> "a1"]
PaymentRecord == [paymentId |-> "p1", amount |-> Number(20)]

AgreementSamples ==
    { [pdf_exists |-> FALSE, pdf_text |-> <<>>],
      [pdf_exists |-> TRUE, pdf_text |-> <<>>],
      [pdf_exists |-> TRUE, pdf_text |-> <<"a", "b", " ", " ", "a", "b", "a">>] }

DataDirs ==
    { [ account_summary |-> o, statements |-> ss, transactions |-> ts,
        payments |-> IF o = <<>> THEN <<>> ELSE <<PaymentRecord>>,
        pdf_exists |-> ag.pdf_exists, pdf_text |-> ag.pdf_text ] :
        o \in {<<>>, <<AccountRecord>>},
        ss \in SeqsUpTo(StatementRecords, MaxRecs),
        ts \in SeqsUpTo(TransactionRecords, MaxRecs),
        ag \in AgreementSamples }

InitCorpus ==
    /\ pc = "corpus_call"
    /\ Idle("corpus")
    /\ local_tz = 0
    /\ now_utc = 0
    /\ alpha = <<0, 1>>
    /\ data_dir \in DataDirs
    /\ docs = NoCorpus

BuildCorpus ==
    /\ pc = "corpus_call"
    /\ docs' = build_corpus(data_dir)
    /\ pc' = "corpus_done"
    /\ UNCHANGED <<envVars, data_dir, exceptCorpus>>

NextCorpus == BuildCorpus

SpecCorpus == InitCorpus /\ [][NextCorpus]_vars

CorpusBuilt == pc = "corpus_done" /\ ~docs.raised


-----------------------------------------------------------------------------
(* Claims about build_corpus *)

\* The records of the data directory in source order: account summaries,
\* statements, transactions, payments, each in the order of its file.
RecordsOf(d) ==
    [i \in DOMAIN d.account_summary |-> <<"account_summary", d.account_summary[i]>>]
    \o [i \in DOMAIN d.statements |-> <<"statement", d.statements[i]>>]
    \o [i \in DOMAIN d.transactions |-> <<"transaction", d.transactions[i]>>]
    \o [i \in DOMAIN d.payments |-> <<"payment", d.payments[i]>>]

RecordSources == {"account_summary", "statement", "transaction", "payment"}

IsAggregateOf(c, metric) ==
    c.source = "aggregate" /\ "ym" \in DOMAIN c.meta /\ c.meta.metric = metric

IsYmAggregate(c) == c.source = "aggregate" /\ "ym" \in DOMAIN c.meta

StmtMetric == "interest_from_statements_total"
TxMetric == "interest_from_interest_transactions_total"

\* The place of a chunk's block in the claimed order.
BlockOf(c) ==
    CASE c.source \in RecordSources -> 1
      [] c.source = "aggregate"     -> 2
      [] OTHER                      -> 3

\* One chunk per record in source order, then aggregates, then the agreement
\* windows in document order.
C13_RecordsThenAggregatesThenAgreement ==
    LET recs == RecordsOf(data_dir)
        ds == docs.docs
        agr == SelectSeq(ds, LAMBDA c : c.source = "agreement")
    IN  /\ Len(SelectSeq(ds, LAMBDA c : c.source \in RecordSources)) = Len(recs)
        /\ \A i \in DOMAIN recs :
            /\ ds[i].source = recs[i][1]
            /\ ds[i].meta.id = record_id(recs[i][1], recs[i][2])
            /\ ds[i].text.json = ds[i].meta.raw
        /\ \A i, j \in DOMAIN ds : i < j => BlockOf(ds[i]) <= BlockOf(ds[j])
        /\ [i \in DOMAIN agr |-> agr[i].text]
            = (IF data_dir.pdf_exists
               THEN chunk_text(data_dir.pdf_text, ChunkSize, Overlap) ELSE <<>>)

HasMalformed(d) ==
    \E i \in DOMAIN RecordsOf(d) :
        ~valid_record(RecordsOf(d)[i][1], RecordsOf(d)[i][2])

\* The well-formed record r has its chunk among ds.
HasChunk(ds, r) ==
    \E i \in DOMAIN ds :
        /\ ds[i].source = r[1]
        /\ ds[i].meta.id = record_id(r[1], r[2])

\* C14: a malformed record in a source file does not abort the build; it is
\* skipped and every well-formed record of every source still has its chunk.
C14_MalformedRecordSkipped ==
    (pc = "corpus_done" /\ HasMalformed(data_dir)) =>
        /\ ~docs.raised
        /\ \A i \in DOMAIN RecordsOf(data_dir) :
            valid_record(RecordsOf(data_dir)[i][1], RecordsOf(data_dir)[i][2])
                => HasChunk(docs.docs, RecordsOf(data_dir)[i])

\* C15: every corpus build emits exactly one schema/rule chunk, whatever the
\* data directory holds.
C15_OneSchemaChunk ==
    pc = "corpus_done" =>
        /\ ~docs.raised
        /\ Len(SelectSeq(docs.docs, LAMBDA c : c.source \in {"schema", "rule"})) = 1

\* Extraction yields no text: agreement.pdf is missing, or extract_pdf_text
\* returns the empty string or whitespace only.
NoAgreementText(d) == ~d.pdf_exists \/ normalize_ws(d.pdf_text) = <<>>

\* C16: when extraction yields no agreement text, the build emits exactly one
\* placeholder chunk, so the corpus never has zero agreement/policy chunks.
C16_AgreementPlaceholder ==
    (CorpusBuilt /\ NoAgreementText(data_dir)) =>
        Len(SelectSeq(docs.docs, LAMBDA c : c.source \in {"agreement", "policy"})) = 1

\* The year-month buckets the inputs can fall in.
Months == 0..3

\* The ym of a record: the wall-clock year-month of its canonical date.
StatementYm(x) == wall_ym(or_date(x.closingDateTime, x.openingDateTime))
TransactionYm(x) == wall_ym(or_date(x.transactionDateTime, x.postingDateTime))

\* The statements of month m with a numeric interestCharged, and the interest
\* transactions of month m, as positions in their files.
InterestStatements(d, m) ==
    { i \in DOMAIN d.statements :
        /\ StatementYm(d.statements[i]) = [has |-> TRUE, m |-> m]
        /\ d.statements[i].interestCharged.has }

InterestTransactions(d, m) ==
    { i \in DOMAIN d.transactions :
        /\ TransactionYm(d.transactions[i]) = [has |-> TRUE, m |-> m]
        /\ is_interest(dump_transaction(d.transactions[i])) }

RECURSIVE SumInterestCharged(_, _)
SumInterestCharged(recs, S) ==
    IF S = {} THEN 0
    ELSE LET i == CHOOSE j \in S : TRUE
         IN  recs[i].interestCharged.v + SumInterestCharged(recs, S \ {i})

RECURSIVE SumAbsAmount(_, _)
SumAbsAmount(recs, S) ==
    IF S = {} THEN 0
    ELSE LET i == CHOOSE j \in S : TRUE
         IN  Abs(recs[i].amount.v) + SumAbsAmount(recs, S \ {i})

AggregatesOf(ds, m, metric) ==
    SelectSeq(ds, LAMBDA c : IsAggregateOf(c, metric) /\ c.meta.ym = [has |-> TRUE, m |-> m])

\* C18: at most one aggregate per (ym, metric); the statement total of a ym
\* exists iff a statement of that ym has a numeric interestCharged and equals
\* their sum; the transaction total exists iff the ym has an interest
\* transaction and equals the sum of their absolute amounts.
C18_AggregatePerYmMetric ==
    CorpusBuilt =>
        \A m \in Months :
            LET st == AggregatesOf(docs.docs, m, StmtMetric)
                tx == AggregatesOf(docs.docs, m, TxMetric)
                S  == InterestStatements(data_dir, m)
                T  == InterestTransactions(data_dir, m)
            IN  /\ Len(st) <= 1 /\ Len(tx) <= 1
                /\ (Len(st) = 1) <=> (S # {})
                /\ Len(st) = 1 =>
                    st[1].text.value
                        = SumInterestCharged(data_dir.statements, S)
                /\ (Len(tx) = 1) <=> (T # {})
                /\ Len(tx) = 1 =>
                    tx[1].text.value
                        = SumAbsAmount(data_dir.transactions, T)


-----------------------------------------------------------------------------
(* app.py: _build under st.cache_resource, and the sessions that call it *)

MaxMtime == 3
TicksPerSecond == 2

\* Two browser sessions of the one server process.
SessionIds == {"s1", "s2"}

\* The choices of the "Answer style" selectbox (lines 50-54) that the sessions
\* make here.
Styles == {"concise", "detailed"}

FileNames == {"transactions.json"}
Sizes == {1, 2}

\* utils/text.py: one part name:int(st_mtime):st_size per child; the parts are
\* sorted, joined and hashed, so the fingerprint is the set of the parts.
dir_mtime_fingerprint(fs) ==
    { <<name, fs[name].mtime \div TicksPerSecond, fs[name].size>> : name \in DOMAIN fs }

NoBuilt == [style |-> "", data |-> <<>>]
NoSettings == ""
NoAnswer == [session |-> ""]

\* The key of a cache entry: st.cache_resource hashes the arguments of the
\* call, here style_profile alone.
cache_key(style_profile) == style_profile

\* A session between taking the compute lock and returning from _build.
InFlight(s) == sessions[s].pc \in {"settings", "indexes", "compose"}

Session(s, position, style, value, fp) ==
    [sessions EXCEPT ![s] = [pc |-> position, style |-> style, built |-> value, fp |-> fp]]

InitCache ==
    /\ pc = "cache"
    /\ Idle("cache")
    /\ local_tz = 0
    /\ now_utc = 0
    /\ alpha = <<0, 1>>
    /\ files = [name \in FileNames |-> [mtime |-> 0, size |-> 1]]
    /\ cache = [key \in Styles |-> NoBuilt]
    /\ locks = {}
    /\ Settings = NoSettings
    /\ sessions = [s \in SessionIds |->
                    [pc |-> "idle", style |-> "concise", built |-> NoBuilt, fp |-> {}]]
    /\ answered = NoAnswer

\* A data file is rewritten.
TouchData ==
    /\ \E name \in FileNames, size \in Sizes :
        /\ files[name].mtime < MaxMtime
        /\ files' = [files EXCEPT ![name] = [mtime |-> @.mtime + 1, size |-> size]]
    /\ UNCHANGED <<pc, envVars, cache, locks, Settings, sessions, answered, exceptCache>>

\* The script starts over (a widget changed or a message was sent); the
\* selectbox gives STYLE_PROFILE.
Rerun(s) ==
    /\ sessions[s].pc \in {"idle", "ready"}
    /\ \E style \in Styles :
        sessions' = Session(s, "lookup", style, NoBuilt, {})
    /\ UNCHANGED <<pc, envVars, files, cache, locks, Settings, answered, exceptCache>>

\* Line 130, _build(STYLE_PROFILE): the cache is read for the key of the
\* argument; a hit returns the entry, a miss goes on to the compute lock.
CacheLookup(s) ==
    /\ sessions[s].pc = "lookup"
    /\ LET key == cache_key(sessions[s].style)
       IN  IF cache[key] # NoBuilt
           THEN sessions' = Session(s, "ready", sessions[s].style, cache[key], {})
           ELSE sessions' = Session(s, "wait", sessions[s].style, NoBuilt,
                                    dir_mtime_fingerprint(files))
    /\ UNCHANGED <<pc, envVars, files, cache, locks, Settings, answered, exceptCache>>

\* The lock of the key is taken and the cache read again: a value computed in
\* the meantime is returned, otherwise the function body starts.
ComputeLock(s) ==
    /\ sessions[s].pc = "wait"
    /\ LET key == cache_key(sessions[s].style)
       IN  /\ key \notin locks
           /\ IF cache[key] # NoBuilt
              THEN /\ sessions' = Session(s, "ready", sessions[s].style, cache[key], {})
                   /\ locks' = locks
              ELSE /\ sessions' = Session(s, "settings", sessions[s].style, NoBuilt,
                                          sessions[s].fp)
                   /\ locks' = locks \cup {key}
    /\ UNCHANGED <<pc, envVars, files, cache, Settings, answered, exceptCache>>

\* Lines 117-118: Settings.llm and Settings.embed_model are set.
SetSettings(s) ==
    /\ sessions[s].pc = "settings"
    /\ Settings' = s
    /\ sessions' = Session(s, "indexes", sessions[s].style, NoBuilt, sessions[s].fp)
    /\ UNCHANGED <<pc, envVars, files, cache, locks, answered, exceptCache>>

\* Line 120: build_indexes reads the data directory as it is now.
BuildIndexesCached(s) ==
    /\ sessions[s].pc = "indexes"
    /\ sessions' = Session(s, "compose", sessions[s].style,
                           [style |-> sessions[s].style, data |-> files], sessions[s].fp)
    /\ UNCHANGED <<pc, envVars, files, cache, locks, Settings, answered, exceptCache>>

\* Lines 123-128 and the return: the value is stored under the key and the
\* lock released.
ReturnBuilt(s) ==
    /\ sessions[s].pc = "compose"
    /\ cache' = [cache EXCEPT ![cache_key(sessions[s].style)] = sessions[s].built]
    /\ locks' = locks \ {cache_key(sessions[s].style)}
    /\ sessions' = Session(s, "ready", sessions[s].style, sessions[s].built, {})
    /\ UNCHANGED <<pc, envVars, files, Settings, answered, exceptCache>>

\* Lines 151-213: a turn retrieves from built and calls Settings.llm.chat.
AnswerTurn(s) ==
    /\ sessions[s].pc = "ready"
    /\ answered' = [ session |-> s,
                     built_fp |-> dir_mtime_fingerprint(sessions[s].built.data),
                     dir_fp |-> dir_mtime_fingerprint(files),
                     llm_in_flight |-> Settings # NoSettings /\ InFlight(Settings) ]
    /\ sessions' = Session(s, "idle", sessions[s].style, sessions[s].built, {})
    /\ UNCHANGED <<pc, envVars, files, cache, locks, Settings, exceptCache>>

NextCache ==
    \/ TouchData
    \/ \E s \in SessionIds :
        \/ Rerun(s)
        \/ CacheLookup(s)
        \/ ComputeLock(s)
        \/ SetSettings(s)
        \/ BuildIndexesCached(s)
        \/ ReturnBuilt(s)
        \/ AnswerTurn(s)

SpecCache == InitCache /\ [][NextCache]_vars

-----------------------------------------------------------------------------
(* Claims about the cached build *)

\* C19: a turn is never answered from a stale build: the fingerprint of the
\* data the build in use was made from equals the data directory's fingerprint
\* when the turn is answered.
C19_NeverStale ==
    answered # NoAnswer => answered.built_fp = answered.dir_fp

\* No two sessions compute a build at the same time for the same fingerprint.
OneBuildInFlight ==
    \A s, t \in SessionIds :
        (s # t /\ InFlight(s) /\ InFlight(t)) => sessions[s].fp # sessions[t].fp

\* Every caller holds the value stored for its argument.
SameResult ==
    \A s \in SessionIds :
        sessions[s].pc = "ready" => sessions[s].built = cache[cache_key(sessions[s].style)]

\* No turn talks to the Settings.llm of a build that has not returned.
NoUnfinishedState ==
    answered # NoAnswer => ~answered.llm_in_flight

\* C20: for concurrent triggers of the build with the same data fingerprint,
\* at most one build is in flight, every caller ends with the same result, and
\* no caller observes shared state written by an unfinished build.
C20_SingleBuildInFlight ==
    /\ OneBuildInFlight
    /\ SameResult
    /\ NoUnfinishedState


-----------------------------------------------------------------------------
(* Claims about the range of the freshness weight *)

\* C28: for every dt_iso, past, present or future, and every lambda >= 0 the
\* freshness weight lies in [0.2, 1.0]: no weighted score is below a fifth of
\* the merged score or above it.
C28_WeightInRange ==
    (pc = "fresh_done" /\ ~fresh.raised) =>
        \A i \in DOMAIN fresh.scores :
            /\ RLe(WeightFloor, fresh.weights[i])
            /\ RLe(fresh.weights[i], One)

\* The same for the chunks whose date is not ahead of now.
C28_PastWeightInRange ==
    (pc = "fresh_done" /\ ~fresh.raised) =>
        \A i \in DOMAIN fresh.scores :
            LET dt == _parse_dt(meta_dt_iso(fresh.scores[i][1]))
            IN  (dt.ok => dt.wall - dt.off <= now_utc) =>
                    /\ RLe(WeightFloor, fresh.weights[i])
                    /\ RLe(fresh.weights[i], One)


-----------------------------------------------------------------------------
(* Claims about the candidates rerank_with_llm returns *)

\* C24: for every judge response (unparseable text, JSON that is no object, a
\* score list shorter or longer than the batch, entries that are no numbers)
\* the chunks of the output are a permutation of the input candidates.
C24_OutputIsPermutation ==
    (pc = "rerank_done" /\ \A b \in Batches : responses[b].form # "raises") =>
        /\ ~judged.raised
        /\ Len(judged.out) = Len(candidates)
        /\ \A c \in Range(candidates) :
            Cardinality({i \in DOMAIN judged.out : judged.out[i][1] = c}) = 1

\* The same when every response carries a score list at least as long as its
\* batch, or none that zip can walk.
C24_FullListsPermutation ==
    (/\ pc = "rerank_done"
     /\ \A b \in Batches :
            \/ responses[b].form \in {"not_json", "not_object", "not_iterable"}
            \/ /\ responses[b].form = "scores"
               /\ Len(responses[b].scores) >= Len(batch_of(candidates, RerankBatch, b))) =>
        /\ ~judged.raised
        /\ Len(judged.out) = Len(candidates)
        /\ \A c \in Range(candidates) :
            Cardinality({i \in DOMAIN judged.out : judged.out[i][1] = c}) = 1


-----------------------------------------------------------------------------
(* Claims about a failing generation call and about explicit timeframes *)

\* C22: when the generation call fails, the run does not crash: it shows a
\* fallback message, and the history keeps every earlier entry unchanged and
\* in order.
C22_GenerationFailureFallback ==
    pc = "turn_done" =>
        /\ ~turn.raised
        /\ turn.final_answer # <<>>
        /\ SubSeq(history, 1, Len(Greeting)) = Greeting

\* Whatever the generation call does, the entries the history had before the
\* run are kept unchanged and in order.
C22_HistoryKept ==
    pc \in {"turn_done", "turn_stopped"} =>
        /\ Len(history) >= Len(Greeting)
        /\ SubSeq(history, 1, Len(Greeting)) = Greeting

\* A retrieved node that is a spend candidate dated outside the current
\* calendar month.
SpendOutsideMonth(n) ==
    /\ n.node.kind = "transaction"
    /\ n.node.spend_candidate = True
    /\ ParsesAsIso(n.node.dt_iso)
    /\ ~(/\ FirstInstantOfMonth(now_utc) <= InstantOf(n.node.dt_iso, local_tz)
         /\ InstantOf(n.node.dt_iso, local_tz) <= now_utc)

\* C26: for a spend query that names an explicit timeframe, the run removes no
\* spend candidate dated outside the current month from the candidates.
C26_ExplicitTimeframeUnfiltered ==
    (pc = "turn_done" /\ turn.is_spend_query /\ NamesTimeframeWord(q_in)) =>
        \A i \in DOMAIN retrieved :
            SpendOutsideMonth(retrieved[i]) =>
                \E j \in DOMAIN turn.candidates : turn.candidates[j] = retrieved[i]


-----------------------------------------------------------------------------
(* app.py: numbered_ctx, and backend/prompting/composer.py: make_user *)

\* The cap of txt[:1100], in characters of the texts here.
CtxCap == 3
MaxCtxText == 4
MaxCtxNodes == 2

\* Lines 194-197 of app.py: f"[{i}] {txt[:1100]}" for each node.
numbered_ctx(ns) ==
    [i \in DOMAIN ns |->
        [n |-> i, text |-> SubSeq(ns[i].text, 1, Min2(CtxCap, Len(ns[i].text)))]]

\* Lines 20-22 of composer.py: the header of the chunk and chunk.text.
make_user_rows(numbered_context) ==
    [i \in DOMAIN numbered_context |->
        [n |-> i, text |-> numbered_context[i].text]]

CtxTexts == SeqsUpTo({"a", "b"}, MaxCtxText)

InitContext ==
    /\ pc = "context_call"
    /\ Idle("context")
    /\ local_tz = 0
    /\ now_utc = 0
    /\ alpha = <<0, 1>>
    /\ ctx_nodes \in SeqsUpTo({[text |-> t] : t \in CtxTexts}, MaxCtxNodes)
    /\ ctx_rows = <<>>

NumberedCtx ==
    /\ pc = "context_call"
    /\ ctx_rows' = numbered_ctx(ctx_nodes)
    /\ pc' = "numbered_ctx_done"
    /\ UNCHANGED <<envVars, ctx_nodes, exceptContext>>

MakeUser ==
    /\ pc = "context_call"
    /\ ctx_rows' = make_user_rows(ctx_nodes)
    /\ pc' = "make_user_done"
    /\ UNCHANGED <<envVars, ctx_nodes, exceptContext>>

NextContext == NumberedCtx \/ MakeUser

SpecContext == InitContext /\ [][NextContext]_vars

-----------------------------------------------------------------------------
(* Claims about the context assemblers *)

\* Every numbered entry carries at most the cap of its chunk's text, taken
\* from the start of the text.
RowsCapped ==
    /\ Len(ctx_rows) = Len(ctx_nodes)
    /\ \A i \in DOMAIN ctx_rows :
        /\ Len(ctx_rows[i].text) <= CtxCap
        /\ ctx_rows[i].text = SubSeq(ctx_nodes[i].text, 1, Len(ctx_rows[i].text))

\* C23: every context assembler caps the text of each chunk when it builds the
\* prompt text: no numbered entry carries more than the cap of its chunk's
\* text, however long the stored text is.
C23_EveryAssemblerCaps ==
    pc \in {"numbered_ctx_done", "make_user_done"} => RowsCapped

\* The assembler of app.py caps every entry.
C23_NumberedCtxCaps ==
    pc = "numbered_ctx_done" => RowsCapped


-----------------------------------------------------------------------------
(* backend/rerankers/sbert_reranker.py: _get_model and rerank_with_sbert *)

\* The threads of the process that call rerank_with_sbert.
ThreadIds == {"t1", "t2", "t3"}

Thread(t, position, ce, scored) ==
    [threads EXCEPT ![t] = [pc |-> position, ce |-> ce, scored |-> scored]]

InitSbert ==
    /\ pc = "sbert"
    /\ Idle("sbert")
    /\ local_tz = 0
    /\ now_utc = 0
    /\ alpha = <<0, 1>>
    /\ _ce = 0
    /\ constructed = 0
    /\ threads = [t \in ThreadIds |-> [pc |-> "idle", ce |-> 0, scored |-> 0]]

\* Lines 17-20: a call with no candidates returns at once; otherwise
\* _get_model is entered.
CallRerank(t) ==
    /\ threads[t].pc = "idle"
    /\ \E empty \in BOOLEAN :
        threads' = Thread(t, IF empty THEN "idle" ELSE "check", 0, threads[t].scored)
    /\ UNCHANGED <<pc, envVars, _ce, constructed, exceptSbert>>

\* Line 13: if _ce is None
CheckModel(t) ==
    /\ threads[t].pc = "check"
    /\ threads' = Thread(t, IF _ce = 0 THEN "construct" ELSE "return", 0, threads[t].scored)
    /\ UNCHANGED <<pc, envVars, _ce, constructed, exceptSbert>>

\* Line 14, right-hand side: CrossEncoder(_MODEL_NAME) makes a new object.
ConstructModel(t) ==
    /\ threads[t].pc = "construct"
    /\ constructed' = constructed + 1
    /\ threads' = Thread(t, "assign", constructed + 1, threads[t].scored)
    /\ UNCHANGED <<pc, envVars, _ce, exceptSbert>>

\* Line 14, the assignment to the global.
AssignModel(t) ==
    /\ threads[t].pc = "assign"
    /\ _ce' = threads[t].ce
    /\ threads' = Thread(t, "return", 0, threads[t].scored)
    /\ UNCHANGED <<pc, envVars, constructed, exceptSbert>>

\* Line 15: return _ce, read from the global; line 20: ce = _get_model().
ReturnModel(t) ==
    /\ threads[t].pc = "return"
    /\ threads' = Thread(t, "predict", _ce, threads[t].scored)
    /\ UNCHANGED <<pc, envVars, _ce, constructed, exceptSbert>>

\* Lines 21-24: the pairs are scored with the local ce.
Predict(t) ==
    /\ threads[t].pc = "predict"
    /\ threads' = Thread(t, "idle", 0, threads[t].ce)
    /\ UNCHANGED <<pc, envVars, _ce, constructed, exceptSbert>>

NextSbert ==
    \E t \in ThreadIds :
        \/ CallRerank(t)
        \/ CheckModel(t)
        \/ ConstructModel(t)
        \/ AssignModel(t)
        \/ ReturnModel(t)
        \/ Predict(t)

SpecSbert == InitSbert /\ [][NextSbert]_vars

-----------------------------------------------------------------------------
(* Claims about the shared cross-encoder *)

\* C25: under any interleaving of concurrent rerank_with_sbert calls, the
\* cross-encoder is constructed at most once and every call scores with that
\* one instance.
C25_ModelConstructedOnce ==
    /\ constructed <= 1
    /\ \A t, u \in ThreadIds :
        (threads[t].scored # 0 /\ threads[u].scored # 0)
            => threads[t].scored = threads[u].scored


-----------------------------------------------------------------------------
(* Claims about the index of an empty data directory *)

\* C21: with an empty data directory, which yields zero chunks, the semantic
\* index is built without raising.
C21_EmptyIndexBuilds ==
    (pc = "build_done" /\ build_nodes(bundle, local_tz) = <<>>) => ~built.raised


-----------------------------------------------------------------------------
(* backend/embeddings/client.py: EmbeddingService.embed, and                 *)
(* backend/rag/faiss_store.py: FAISSStore                                    *)

MaxStoreChunks == 3
MaxSearchK == 2

\* The width of the vectors of each backend: the API model and the local
\* Sentence-Transformers model are different models.
EmbedDim == [api |-> 2, local |-> 1]

\* embed(texts), lines 49-55: the local model when use_local is set;
\* otherwise the API, and the local model when the API call raises.  An empty
\* list of texts gives an array with one axis, which has no width.
embed(n, local, up) ==
    LET backend == IF local \/ ~up THEN "local" ELSE "api"
    IN  [backend |-> backend, rows |-> n, dim |-> IF n = 0 THEN 0 ELSE EmbedDim[backend]]

NoStore == [built |-> FALSE, raised |-> FALSE, backend |-> "", dim |-> 0, n |-> 0]
NoSearch == [done |-> FALSE]

\* FAISSStore.__init__, lines 8-15: embs.shape[1] of an array with one axis
\* raises IndexError.
faiss_store(n, local, up) ==
    LET embs == embed(n, local, up)
    IN  IF embs.rows = 0
        THEN [built |-> FALSE, raised |-> TRUE, backend |-> embs.backend, dim |-> 0, n |-> 0]
        ELSE [built |-> TRUE, raised |-> FALSE, backend |-> embs.backend,
              dim |-> embs.dim, n |-> n]

\* FAISSStore.search, lines 17-26: the query is embedded by the same service,
\* in the state the API is in now; IndexFlatIP.search rejects a query whose
\* width is not the index's, and otherwise gives min(k, n) hits.
faiss_search(st, kk, local, up) ==
    LET q == embed(1, local, up)
    IN  [done |-> TRUE, backend |-> q.backend, dim |-> q.dim,
         index_backend |-> st.backend, index_dim |-> st.dim,
         raised |-> q.dim # st.dim,
         out |-> IF q.dim # st.dim THEN 0 ELSE Min2(kk, st.n)]

InitFaiss ==
    /\ pc = "faiss"
    /\ Idle("faiss")
    /\ local_tz = 0
    /\ now_utc = 0
    /\ alpha = <<0, 1>>
    /\ api_up \in BOOLEAN
    /\ use_local \in BOOLEAN
    /\ store = NoStore
    /\ searched = NoSearch

\* The embeddings API goes down or comes back.
ApiChanges ==
    /\ api_up' = ~api_up
    /\ UNCHANGED <<pc, envVars, use_local, store, searched, exceptFaiss>>

BuildStore ==
    /\ \E n \in 0..MaxStoreChunks : store' = faiss_store(n, use_local, api_up)
    /\ UNCHANGED <<pc, envVars, api_up, use_local, searched, exceptFaiss>>

Search ==
    /\ store.built
    /\ \E kk \in 1..MaxSearchK : searched' = faiss_search(store, kk, use_local, api_up)
    /\ UNCHANGED <<pc, envVars, api_up, use_local, store, exceptFaiss>>

NextFaiss == ApiChanges \/ BuildStore \/ Search

SpecFaiss == InitFaiss /\ [][NextFaiss]_vars

-----------------------------------------------------------------------------
(* Claims about the embedding backend of the queries *)

\* C27: whatever the availability of the embeddings API at build time and at
\* query time, every query vector passed to the index search comes from the
\* backend the index was built with and has the width of the index's vectors.
C27_SameBackendAtQueryTime ==
    searched.done =>
        /\ searched.backend = searched.index_backend
        /\ searched.dim = searched.index_dim

\* With USE_LOCAL_EMBEDS set the API is never used and the claim holds.
C27_LocalOnlyConsistent ==
    (searched.done /\ use_local) =>
        /\ searched.backend = searched.index_backend
        /\ searched.dim = searched.index_dim
        /\ ~searched.raised

-----------------------------------------------------------------------------
(* core/config.py: _DEFAULTS, _deep_update, load_config.                    *)
(* A dict is a function from its keys; alpha is in hundredths. Two names    *)
(* for one dict object are modelled by writing through both: a section of   *)
(* cfg that _deep_update did not replace is the section object of           *)
(* _DEFAULTS itself, since dict(_DEFAULTS) copies the outer dict only.      *)

MaxLoads == 3

\* _DEFAULTS as the module defines it, restricted to two of its sections.
DefaultsAtImport ==
    [retrieval |-> [alpha |-> 60, final_k |-> 8],
     reranker  |-> [name |-> "llm"]]

\* A variable that is not set; a variable that is set holds <<value>>.
Unset == <<>>

\* No file at the path; a file that exists holds its parsed content.
NoFile == [exists |-> FALSE]

\* The override variables and the values they take here.
EnvValues ==
    [HYBRID_ALPHA : {Unset, <<30>>}, FINAL_K : {Unset, <<5>>},
     RERANKER : {Unset, <<"sbert">>}]

NoEnv == [HYBRID_ALPHA |-> Unset, FINAL_K |-> Unset, RERANKER |-> Unset]

\* The contents of config/app.yaml: no file, an empty file, a file with a
\* retrieval section, a file with a reranker section.
FileCfgs ==
    { NoFile,
      [exists |-> TRUE, content |-> [s \in {} |-> <<>>]],
      [exists |-> TRUE,
       content |-> [s \in {"retrieval"} |-> [z \in {"alpha"} |-> 45]]],
      [exists |-> TRUE,
       content |-> [s \in {"reranker"} |-> [z \in {"name"} |-> "sbert"]]] }

\* _deep_update at the depth of one section: a new dict with the keys of
\* both, the values of new winning.
section_update(base, new) ==
    [z \in DOMAIN base \cup DOMAIN new |->
        IF z \in DOMAIN new THEN new[z] ELSE base[z]]

\* _deep_update(base, new): out = dict(base); a section of new that is a
\* dict in both is replaced by a new merged dict, every other section of
\* out is still the object of base.
_deep_update(base, new) ==
    [s \in DOMAIN base |->
        IF s \in DOMAIN new THEN section_update(base[s], new[s]) ELSE base[s]]

\* The sections of cfg that are objects of their own after lines 31-36;
\* the others are the section objects of _DEFAULTS.
OwnSections(file) == IF file.exists THEN DOMAIN file.content ELSE {}

\* os.getenv(name, default)
getenv(env, name, default) ==
    IF env[name] = Unset THEN default ELSE env[name][1]

\* Lines 39-52: every key is assigned the value of its variable, or its own
\* value when the variable is not set.
env_overrides(c, env) ==
    [retrieval |-> [alpha   |-> getenv(env, "HYBRID_ALPHA", c.retrieval.alpha),
                    final_k |-> getenv(env, "FINAL_K", c.retrieval.final_k)],
     reranker  |-> [name |-> getenv(env, "RERANKER", c.reranker.name)]]

\* load_config(path): the dict it returns.
load_config(defaults, file, env) ==
    LET c0 == IF file.exists THEN _deep_update(defaults, file.content)
              ELSE defaults
    IN  env_overrides(c0, env)

\* _DEFAULTS after the call: the assignments of lines 39-52 to a section
\* that cfg shares with _DEFAULTS are assignments to _DEFAULTS.
defaults_after(defaults, file, env) ==
    LET c1 == load_config(defaults, file, env)
    IN  [s \in DOMAIN defaults |->
            IF s \in OwnSections(file) THEN defaults[s] ELSE c1[s]]

NoCfg == [loaded |-> FALSE]

InitConfig ==
    /\ pc = "config"
    /\ local_tz = 0 /\ now_utc = 0 /\ alpha = <<0, 1>>
    /\ _DEFAULTS = DefaultsAtImport
    /\ environ = NoEnv
    /\ cfg_file = NoFile
    /\ cfg = NoCfg
    /\ loads = 0
    /\ Idle("config")

\* The process environment changes between two calls.
SetEnv ==
    /\ pc = "config"
    /\ \E e \in EnvValues : e # environ /\ environ' = e
    /\ UNCHANGED <<pc, envVars, _DEFAULTS, cfg_file, cfg, loads, exceptConfig>>

\* config/app.yaml is written or removed between two calls.
WriteFile ==
    /\ pc = "config"
    /\ \E f \in FileCfgs : f # cfg_file /\ cfg_file' = f
    /\ UNCHANGED <<pc, envVars, _DEFAULTS, environ, cfg, loads, exceptConfig>>

LoadConfig ==
    /\ pc = "config"
    /\ loads < MaxLoads
    /\ cfg' = [loaded |-> TRUE,
               value |-> load_config(_DEFAULTS, cfg_file, environ),
               env |-> environ, file |-> cfg_file]
    /\ _DEFAULTS' = defaults_after(_DEFAULTS, cfg_file, environ)
    /\ loads' = loads + 1
    /\ UNCHANGED <<pc, envVars, environ, cfg_file, exceptConfig>>

NextConfig == SetEnv \/ WriteFile \/ LoadConfig

SpecConfig == InitConfig /\ [][NextConfig]_vars

-----------------------------------------------------------------------------
(* Claims about the state load_config keeps between calls.                  *)

\* C29: load_config never modifies _DEFAULTS: after any sequence of calls,
\* with any overrides, the module-level defaults are what they were at
\* import.
C29_DefaultsNeverModified == _DEFAULTS = DefaultsAtImport

\* C29, the later calls: a call made with no config file and no override
\* variable set returns the defaults of the module as imported.
C29_NoLeakIntoLaterCalls ==
    (cfg.loaded /\ cfg.env = NoEnv /\ cfg.file = NoFile) =>
        cfg.value = DefaultsAtImport

\* A call whose file replaces both sections would leave _DEFAULTS alone;
\* with the files above at most one section is replaced, the other is
\* written through.
C29_OwnSectionsKept ==
    [][LoadConfig =>
        \A s \in OwnSections(cfg_file) : _DEFAULTS'[s] = _DEFAULTS[s]]_vars

-----------------------------------------------------------------------------
(* backend/utils/text.py: chunk_text, one pass of its while loop at a time. *)

MaxLoopText == 4
MaxChunkSize == 3
MaxOverlap == 3

\* A call that returns appends at most one chunk per character; chunks past
\* this number are not recorded, the loop goes on as in the source.
WindowCap == MaxLoopText + 1

LoopChars == {"a", " "}

InitChunk ==
    /\ pc = "chunk_call"
    /\ local_tz = 0 /\ now_utc = 0 /\ alpha = <<0, 1>>
    /\ ct_text \in SeqsUpTo(LoopChars, MaxLoopText)
    /\ ct_size \in 1..MaxChunkSize
    /\ ct_overlap \in 0..MaxOverlap
    /\ ct_start = 0
    /\ ct_chunks = <<>>
    /\ Idle("chunk")

\* Lines 9-11: normalise, return [] for an empty text, else enter the loop.
ChunkEnter ==
    /\ pc = "chunk_call"
    /\ ct_text' = normalize_ws(ct_text)
    /\ pc' = IF ct_text' = <<>> THEN "chunk_done" ELSE "chunk_while"
    /\ UNCHANGED <<envVars, ct_size, ct_overlap, ct_start, ct_chunks, exceptChunk>>

\* Lines 12-16: one pass of the loop with start < n.
ChunkPass ==
    /\ pc = "chunk_while"
    /\ ct_start < Len(ct_text)
    /\ LET end == Min2(ct_start + ct_size, Len(ct_text))
       IN  /\ ct_chunks' = IF Len(ct_chunks) < WindowCap
                           THEN Append(ct_chunks, SubSeq(ct_text, ct_start + 1, end))
                           ELSE ct_chunks
           /\ IF end = Len(ct_text)
              THEN pc' = "chunk_done" /\ ct_start' = ct_start
              ELSE pc' = "chunk_while" /\ ct_start' = Max2(0, end - ct_overlap)
    /\ UNCHANGED <<envVars, ct_text, ct_size, ct_overlap, exceptChunk>>

\* Line 12 never ends the loop: start is 0 or end - overlap with end < n, so
\* start < n on every return to the loop head; the loop ends at line 15.
LoopConditionHolds == pc = "chunk_while" => ct_start < Len(ct_text)

NextChunk == ChunkEnter \/ ChunkPass

SpecChunk == InitChunk /\ [][NextChunk]_vars

\* The interpreter keeps running the call.
SpecChunkFair == SpecChunk /\ WF_vars(NextChunk)

-----------------------------------------------------------------------------
(* Claims about the termination of chunk_text.                              *)

\* C30: chunk_text terminates for every text, every chunk_size >= 1 and
\* every overlap >= 0, overlap >= chunk_size included: every call returns.
C30_ChunkTextTerminates == <>(pc = "chunk_done")

\* C30, the variant: a pass of the loop that does not leave it moves start
\* forward. start is below len(text) inside the loop, so this is what makes
\* the loop end.
C30_StartMovesForward ==
    [][(ChunkPass /\ pc' = "chunk_while") => ct_start' > ct_start]_vars

\* With overlap < chunk_size the call returns.
C30_SmallOverlapTerminates ==
    (pc = "chunk_call" /\ ct_overlap < ct_size) ~> (pc = "chunk_done")

\* A call with overlap >= chunk_size on a text longer than one chunk never
\* returns.
C30_LargeOverlapLoops ==
    (pc = "chunk_while" /\ ct_overlap >= ct_size /\ Len(ct_text) > ct_size) =>
        ct_start = 0

====
